---- MODULE Spec2Model ----
(***************************************************************************)
(* State-machine model of the business-management backend.                 *)
(*                                                                         *)
(* The database rows of each application are the state; every model method *)
(* and every API handler is one action.  The sub-systems are modelled apart,    *)
(* each with its own specification over the shared variables:              *)
(*   SpecConfirm : Order.mark_as_confirmed and the stock it deducts        *)
(*   SpecTotals  : OrderItem.save and Order.calculate_totals               *)
(*   SpecRes     : Reservation save / clean / confirm / change_status      *)
(*   SpecFin     : TransactionViewSet.post and its entries                 *)
(*   SpecNum     : order_number generation in Order.save                   *)
(*   SpecApi     : the Product and Order ViewSets, their permissions       *)
(*   SpecOrderApi: one order and the fields sent to PATCH /orders/{y}/     *)
(*   SpecMembers : BusinessMember rows and the single-owner rule           *)
(*   SpecBiz     : Business rows and their slug                            *)
(*   SpecItems   : order items created, updated, deleted and moved         *)
(*   SpecInv     : InventoryItem.reserve and release_reservation           *)
(*   SpecPay     : PaymentViewSet.mark_captured and refund                 *)
(*   SpecConfirmRace, SpecNumRace, SpecItemRace : the statements of        *)
(*                 mark_as_confirmed, Order.save and POST /order-items/    *)
(*                 run by two workers, interleaved                         *)
(***************************************************************************)
EXTENDS Integers, Sequences, FiniteSets, Bags, TLC

VARIABLES
    products,       \* Product rows: track_inventory, has_variants, stock_quantity
    variants,       \* ProductVariant rows: stock_quantity
    orders,         \* Order rows: status, confirmed_at and the money columns
    items,          \* OrderItem rows in created_at order (Meta.ordering)
    statusHistory,  \* OrderStatusHistory rows, oldest first
    reservations,   \* Reservation rows
    resHistory,     \* ReservationStatusHistory rows, oldest first
    transactions,   \* Transaction rows: is_posted, posted_at
    entries,        \* TransactionEntry rows
    orderNumbers,   \* the business and order_number columns of the Order rows
    today,          \* the date of timezone.now()
    members,        \* BusinessMember rows by (user, business): role, is_active
    productRows,    \* Product rows as the ProductViewSet serves them
    orderRows,      \* Order rows as the OrderViewSet serves them
    businesses,     \* Business rows: name, slug
    calls,          \* the calls in progress, one per worker: what each has read
    inventory,      \* InventoryItem rows: quantity, reserved_quantity
    payments,       \* Payment rows: status, amount, refunded_amount, invoice
    invoices,       \* Invoice rows: total, amount_paid, status
    now,            \* timezone.now()
    resp            \* outcome of the last call: what was called and how it ended

orderVars == <<products, variants, orders, items, statusHistory>>
resVars   == <<reservations, resHistory>>
finVars   == <<transactions, entries>>
numVars   == <<orderNumbers, today>>
apiVars   == <<members, productRows, orderRows>>
bizVars   == <<businesses>>
callVars  == <<calls>>
invVars   == <<inventory>>
payVars   == <<payments, invoices>>

vars ==
    <<orderVars, resVars, finVars, numVars, apiVars, bizVars, callVars, invVars,
      payVars, now, resp>>

\* what the operations that run as interleaved calls leave alone, calls apart
nonOrderCallVars == <<resVars, finVars, numVars, apiVars, bizVars, invVars, payVars>>
nonNumCallVars   == <<orderVars, resVars, finVars, apiVars, bizVars, invVars, payVars>>

\* what the operations of one application leave alone
nonOrderVars == <<nonOrderCallVars, callVars>>
nonResVars   ==
    <<orderVars, finVars, numVars, apiVars, bizVars, callVars, invVars, payVars>>
nonFinVars   ==
    <<orderVars, resVars, numVars, apiVars, bizVars, callVars, invVars, payVars>>
nonNumVars   == <<nonNumCallVars, callVars>>
nonApiVars   ==
    <<orderVars, resVars, finVars, numVars, bizVars, callVars, invVars, payVars>>
nonBizVars   ==
    <<orderVars, resVars, finVars, numVars, apiVars, callVars, invVars, payVars>>
nonInvVars   ==
    <<orderVars, resVars, finVars, numVars, apiVars, bizVars, callVars, payVars>>
nonPayVars   ==
    <<orderVars, resVars, finVars, numVars, apiVars, bizVars, callVars, invVars>>

None == "None"

(***************************************************************************)
(* Bounds of the model.                                                    *)
(***************************************************************************)
MaxItems   == 2     \* order items that may exist at once
MaxQty     == 2     \* largest OrderItem.quantity drawn
MaxStock   == 2     \* largest initial stock_quantity drawn
MaxHistory == 2     \* OrderStatusHistory rows after which no confirmation is tried
MaxNow     == 2     \* last clock value

Products == {"p1", "p2"}
Variants == {"v1"}
Orders   == {"o1"}
Users    == {"u1"}

\* ProductVariant.product: the foreign key never changes in the model
VariantProduct == [v \in Variants |-> "p2"]

ORDER_STATUS_CHOICES ==
    {"draft", "pending", "confirmed", "processing", "ready", "completed",
     "cancelled", "refunded"}

\* statuses an order update writes in the model
StatusInputs == {"pending", "cancelled"}

NoResp == [op |-> "none", target |-> None, result |-> None, reason |-> None]

Resp(op, target, result, reason) ==
    [op |-> op, target |-> target, result |-> result, reason |-> reason]

(***************************************************************************)
(* Order.items.all(): the positions of the order's items, created_at order *)
(***************************************************************************)
RECURSIVE ItemsOfFrom(_, _, _)
ItemsOfFrom(its, o, k) ==
    IF k > Len(its) THEN <<>>
    ELSE IF its[k].order = o THEN <<k>> \o ItemsOfFrom(its, o, k + 1)
         ELSE ItemsOfFrom(its, o, k + 1)

ItemsOf(its, o) == ItemsOfFrom(its, o, 1)

(***************************************************************************)
(* First loop of mark_as_confirmed: the reason of the first ValidationError *)
(* raised, or None when every item passes.                                 *)
(***************************************************************************)
RECURSIVE CheckStockFrom_variant_unchecked(_, _, _, _, _)
CheckStockFrom_variant_unchecked(its, ps, vs, idx, k) ==
    IF k > Len(idx) THEN None
    ELSE LET item == its[idx[k]]
             p    == ps[item.product]
         IN  IF ~p.track_inventory
             THEN CheckStockFrom_variant_unchecked(its, ps, vs, idx, k + 1)
             ELSE IF p.has_variants
                  THEN IF item.variant = None THEN "variant_required"
                       ELSE CheckStockFrom_variant_unchecked(its, ps, vs, idx, k + 1)
                  ELSE IF p.stock_quantity < item.quantity
                       THEN "insufficient_stock"
                       ELSE CheckStockFrom_variant_unchecked(its, ps, vs, idx, k + 1)

RECURSIVE CheckStockFrom(_, _, _, _, _)
CheckStockFrom(its, ps, vs, idx, k) ==
    IF k > Len(idx) THEN None
    ELSE LET item == its[idx[k]]
             p    == ps[item.product]
         IN  IF ~p.track_inventory THEN CheckStockFrom(its, ps, vs, idx, k + 1)
             ELSE IF p.has_variants
                  THEN IF item.variant = None THEN "variant_required"
                       ELSE IF vs[item.variant].stock_quantity < item.quantity
                            THEN "insufficient_stock"
                            ELSE CheckStockFrom(its, ps, vs, idx, k + 1)
                  ELSE IF p.stock_quantity < item.quantity
                       THEN "insufficient_stock"
                       ELSE CheckStockFrom(its, ps, vs, idx, k + 1)

CheckStock(its, ps, vs, o) == CheckStockFrom(its, ps, vs, ItemsOf(its, o), 1)

(***************************************************************************)
(* ProductVariant.deduct_stock: the variant rows after the call.  The row  *)
(* is read when the item reaches its turn; the boolean the method returns  *)
(* is dropped by its caller.                                               *)
(***************************************************************************)
deduct_stock(ps, vs, v, quantity) ==
    IF ps[VariantProduct[v]].track_inventory
    THEN IF vs[v].stock_quantity >= quantity
         THEN [vs EXCEPT ![v].stock_quantity = @ - quantity]
         ELSE vs
    ELSE vs

(***************************************************************************)
(* Second loop of mark_as_confirmed: <<products, variants>> after every    *)
(* item was deducted in turn.  Each item loads its product / variant row   *)
(* when it is reached, so it sees the writes of the items before it.       *)
(***************************************************************************)
RECURSIVE DeductFrom(_, _, _, _, _)
DeductFrom(its, ps, vs, idx, k) ==
    IF k > Len(idx) THEN <<ps, vs>>
    ELSE LET item == its[idx[k]]
             p    == ps[item.product]
         IN  IF ~p.track_inventory THEN DeductFrom(its, ps, vs, idx, k + 1)
             ELSE IF p.has_variants
                  THEN DeductFrom(its, ps,
                                  deduct_stock(ps, vs, item.variant, item.quantity),
                                  idx, k + 1)
                  ELSE DeductFrom(its,
                                  [ps EXCEPT ![item.product].stock_quantity =
                                                 @ - item.quantity],
                                  vs, idx, k + 1)

DeductAll(its, ps, vs, o) == DeductFrom(its, ps, vs, ItemsOf(its, o), 1)

(***************************************************************************)
(* Money.  A stored amount is a numeric(n, 2) column, held here in cents.  *)
(* OrderItem.save computes with exact decimals; Unit is the number of      *)
(* exact units in one cent (percentages of percentages need 1/10000 cent). *)
(***************************************************************************)
Unit == 100 * 100

\* the database rounds a value to two decimals, half away from zero
Quantize(x) ==
    IF x >= 0 THEN (2 * x + Unit) \div (2 * Unit)
    ELSE -((2 * (-x) + Unit) \div (2 * Unit))

(***************************************************************************)
(* OrderItem.clean: the ValidationError it raises, or None                 *)
(***************************************************************************)
OrderItemClean(ps, product, variant) ==
    IF ps[product].has_variants /\ variant = None THEN "variant_required"
    ELSE IF variant # None /\ VariantProduct[variant] # product
         THEN "variant_of_other_product"
         ELSE None

(***************************************************************************)
(* The arithmetic of OrderItem.save on an instance whose discount_amount   *)
(* and tax_amount attributes hold oldDiscount and oldTax (cents): the four *)
(* amounts written to the row.                                             *)
(***************************************************************************)
ItemAmounts(quantity, unit_price, discount_percentage, tax_rate, oldDiscount, oldTax) ==
    LET subtotal        == unit_price * quantity * Unit
        discount_amount == IF discount_percentage > 0
                           THEN (subtotal * discount_percentage) \div 100
                           ELSE oldDiscount * Unit
        base_for_tax    == subtotal - discount_amount
        tax_amount      == IF tax_rate > 0 THEN (base_for_tax * tax_rate) \div 100
                           ELSE oldTax * Unit
    IN  [subtotal        |-> Quantize(subtotal),
         discount_amount |-> Quantize(discount_amount),
         tax_amount      |-> Quantize(tax_amount),
         total           |-> Quantize(base_for_tax + tax_amount)]

RECURSIVE SumField(_, _, _, _)
SumField(its, idx, f, k) ==
    IF k > Len(idx) THEN 0 ELSE its[idx[k]][f] + SumField(its, idx, f, k + 1)

(***************************************************************************)
(* Order.calculate_totals: the order row after re-summing its item rows    *)
(***************************************************************************)
calculate_totals_no_tax(its, ord, o) ==
    LET idx == ItemsOf(its, o)
        sub == SumField(its, idx, "subtotal", 1)
        dis == SumField(its, idx, "discount_amount", 1)
        tax == SumField(its, idx, "tax_amount", 1)
    IN  [ord EXCEPT !.subtotal = sub, !.discount_amount = dis, !.tax_amount = tax,
                    !.total = sub - dis + ord.shipping_cost]

calculate_totals(its, ord, o) ==
    LET idx == ItemsOf(its, o)
        sub == SumField(its, idx, "subtotal", 1)
        dis == SumField(its, idx, "discount_amount", 1)
        tax == SumField(its, idx, "tax_amount", 1)
    IN  [ord EXCEPT !.subtotal = sub, !.discount_amount = dis, !.tax_amount = tax,
                    !.total = sub - dis + tax + ord.shipping_cost]

NewItem(o, product, variant, quantity, unit_price, discount_percentage, tax_rate) ==
    [order |-> o, product |-> product, variant |-> variant,
     quantity |-> quantity, unit_price |-> unit_price,
     discount_percentage |-> discount_percentage, tax_rate |-> tax_rate]
    @@ ItemAmounts(quantity, unit_price, discount_percentage, tax_rate, 0, 0)

(***************************************************************************)
(* POST /order-items/ : OrderItemViewSet.perform_create -> OrderItem.save  *)
(* (clean, amounts, INSERT, order.calculate_totals) and calculate_totals   *)
(* once more from the view.                                                *)
(***************************************************************************)
OrderItemCreate(o, product, variant, quantity, unit_price, discount_percentage, tax_rate) ==
    /\ Len(items) < MaxItems
    /\ LET err == OrderItemClean(products, product, variant)
           its == Append(items, NewItem(o, product, variant, quantity, unit_price,
                                        discount_percentage, tax_rate))
       IN  IF err # None
           THEN /\ resp' = Resp("item_save", Len(items) + 1, "ValidationError", err)
                /\ UNCHANGED <<items, orders>>
           ELSE /\ items' = its
                /\ orders' = [orders EXCEPT ![o] =
                       calculate_totals(its, calculate_totals(its, @, o), o)]
                /\ resp' = Resp("item_save", Len(its), "ok", None)
    /\ UNCHANGED <<products, variants, statusHistory, now, nonOrderVars>>

(***************************************************************************)
(* PUT/PATCH /order-items/{k}/ : the serializer sets the given fields on   *)
(* the instance loaded from the row and calls OrderItem.save.              *)
(***************************************************************************)
OrderItemUpdate(k, quantity, unit_price, discount_percentage, tax_rate) ==
    /\ k \in 1..Len(items)
    /\ LET old == items[k]
           err == OrderItemClean(products, old.product, old.variant)
           new == [order |-> old.order, product |-> old.product,
                   variant |-> old.variant, quantity |-> quantity,
                   unit_price |-> unit_price,
                   discount_percentage |-> discount_percentage,
                   tax_rate |-> tax_rate]
                  @@ ItemAmounts(quantity, unit_price, discount_percentage,
                                 tax_rate, old.discount_amount, old.tax_amount)
           its == [items EXCEPT ![k] = new]
       IN  IF err # None
           THEN /\ resp' = Resp("item_save", k, "ValidationError", err)
                /\ UNCHANGED <<items, orders>>
           ELSE /\ items' = its
                /\ orders' = [orders EXCEPT ![old.order] =
                                  calculate_totals(its, @, old.order)]
                /\ resp' = Resp("item_save", k, "ok", None)
    /\ UNCHANGED <<products, variants, statusHistory, now, nonOrderVars>>

(***************************************************************************)
(* Order.mark_as_confirmed(user), inside transaction.atomic                *)
(***************************************************************************)
mark_as_confirmed_no_history(o, user) ==
    /\ Len(statusHistory) < MaxHistory
    /\ LET err == CheckStock(items, products, variants, o)
           ded == DeductAll(items, products, variants, o)
       IN  IF orders[o].status # "pending"
           THEN /\ resp' = Resp("mark_as_confirmed", o, "ValidationError",
                                "not_pending")
                /\ UNCHANGED <<products, variants, orders, statusHistory>>
           ELSE IF err # None
           THEN /\ resp' = Resp("mark_as_confirmed", o, "ValidationError", err)
                /\ UNCHANGED <<products, variants, orders, statusHistory>>
           ELSE /\ products' = ded[1]
                /\ variants' = ded[2]
                /\ orders' = [orders EXCEPT ![o].status = "confirmed",
                                            ![o].confirmed_at = now]
                /\ UNCHANGED statusHistory
                /\ resp' = Resp("mark_as_confirmed", o, "ok", None)
    /\ UNCHANGED <<items, now, nonOrderVars>>

mark_as_confirmed_no_guard(o, user) ==
    /\ Len(statusHistory) < MaxHistory
    /\ LET err == CheckStock(items, products, variants, o)
           ded == DeductAll(items, products, variants, o)
       IN  IF err # None
           THEN /\ resp' = Resp("mark_as_confirmed", o, "ValidationError", err)
                /\ UNCHANGED <<products, variants, orders, statusHistory>>
           ELSE /\ products' = ded[1]
                /\ variants' = ded[2]
                /\ orders' = [orders EXCEPT ![o].status = "confirmed",
                                            ![o].confirmed_at = now]
                /\ statusHistory' = Append(statusHistory,
                       [order |-> o, previous_status |-> "pending",
                        new_status |-> "confirmed", changed_by |-> user])
                /\ resp' = Resp("mark_as_confirmed", o, "ok", None)
    /\ UNCHANGED <<items, now, nonOrderVars>>

mark_as_confirmed(o, user) ==
    /\ Len(statusHistory) < MaxHistory
    /\ LET err == CheckStock(items, products, variants, o)
           ded == DeductAll(items, products, variants, o)
       IN  IF orders[o].status # "pending"
           THEN /\ resp' = Resp("mark_as_confirmed", o, "ValidationError",
                                "not_pending")
                /\ UNCHANGED <<products, variants, orders, statusHistory>>
           ELSE IF err # None
           THEN /\ resp' = Resp("mark_as_confirmed", o, "ValidationError", err)
                /\ UNCHANGED <<products, variants, orders, statusHistory>>
           ELSE /\ products' = ded[1]
                /\ variants' = ded[2]
                /\ orders' = [orders EXCEPT ![o].status = "confirmed",
                                            ![o].confirmed_at = now]
                /\ statusHistory' = Append(statusHistory,
                       [order |-> o, previous_status |-> "pending",
                        new_status |-> "confirmed", changed_by |-> user])
                /\ resp' = Resp("mark_as_confirmed", o, "ok", None)
    /\ UNCHANGED <<items, now, nonOrderVars>>

(***************************************************************************)
(* PUT/PATCH /orders/{o}/ with OrderSerializer (fields = "__all__"): the   *)
(* status and shipping_cost columns are written as sent.                   *)
(***************************************************************************)
OrderUpdate(o, status, shipping_cost) ==
    /\ orders' = [orders EXCEPT ![o].status = status,
                                ![o].shipping_cost = shipping_cost]
    /\ resp' = Resp("order_update", o, "ok", None)
    /\ UNCHANGED <<products, variants, items, statusHistory, now, nonOrderVars>>

(***************************************************************************)
(* PUT/PATCH /products/{p}/ with ProductSerializer: has_variants written   *)
(***************************************************************************)
ProductUpdate(p, has_variants) ==
    /\ products' = [products EXCEPT ![p].has_variants = has_variants]
    /\ resp' = Resp("product_update", p, "ok", None)
    /\ UNCHANGED <<variants, orders, items, statusHistory, now, nonOrderVars>>

(***************************************************************************)
(* The tables a specification does not use stay empty.                     *)
(***************************************************************************)
NoReservations == reservations = <<>> /\ resHistory = <<>>
NoTransactions == transactions = <<>> /\ entries = EmptyBag
NoOrderNumbers == orderNumbers = <<>> /\ today = 1
NoApiRows == members = <<>> /\ productRows = <<>> /\ orderRows = <<>>
NoBusinesses == businesses = <<>>
NoCalls == calls = <<>>
NoInventory == inventory = <<>>
NoPayments == payments = <<>> /\ invoices = <<>>
NoOrders ==
    /\ products = <<>> /\ variants = <<>> /\ orders = <<>>
    /\ items = <<>> /\ statusHistory = <<>>

(***************************************************************************)
(* Inputs drawn by the specifications                                      *)
(***************************************************************************)
Prices        == {5}               \* unit_price, cents
Percentages   == {0, 25}           \* discount_percentage
TaxRates      == {0, 19}           \* tax_rate
ShippingCosts == {0, 500}          \* Order.shipping_cost, cents
Quantities    == {2}              \* OrderItem.quantity drawn for the totals
VariantInputs == Variants \cup {None}

NewOrder(shipping_cost) ==
    [status |-> "pending", confirmed_at |-> None, shipping_cost |-> shipping_cost,
     subtotal |-> 0, discount_amount |-> 0, tax_amount |-> 0, total |-> 0]

(***************************************************************************)
(* SpecConfirm: a catalogue with any stock levels, orders filled with      *)
(* items and confirmed.                                                    *)
(***************************************************************************)
InitConfirm ==
    /\ NoCalls /\ NoInventory /\ NoPayments
    /\ NoReservations /\ NoTransactions /\ NoOrderNumbers
    /\ NoApiRows /\ NoBusinesses
    /\ \E s \in 0..MaxStock :
          /\ products \in [Products -> [track_inventory : BOOLEAN,
                                        has_variants : BOOLEAN,
                                        stock_quantity : {s}]]
          /\ \A p \in Products : products[p].has_variants => products[p].track_inventory
          /\ variants = [v \in Variants |-> [stock_quantity |-> s]]
    /\ \A p \in Products :
           products[p].has_variants = (\E v \in Variants : VariantProduct[v] = p)
    /\ orders = [o \in Orders |-> NewOrder(0)]
    /\ items = <<>>
    /\ statusHistory = <<>>
    /\ now = 1
    /\ resp = NoResp

ConfirmAddItem ==
    \E o \in Orders, p \in Products, v \in VariantInputs, q \in 1..MaxQty :
        OrderItemCreate(o, p, v, q, 100, 0, 0)

ConfirmOrder == \E o \in Orders, u \in Users : mark_as_confirmed(o, u)

ConfirmSetStatus ==
    \E o \in Orders, s \in StatusInputs : OrderUpdate(o, s, orders[o].shipping_cost)

ConfirmSetHasVariants ==
    \E p \in Products : ProductUpdate(p, TRUE)

NextConfirm ==
    \/ ConfirmAddItem
    \/ ConfirmOrder
    \/ ConfirmSetStatus
    \/ ConfirmSetHasVariants

SpecConfirm == InitConfirm /\ [][NextConfirm]_vars

(***************************************************************************)
(* SpecTotals: items saved with any prices, discounts and taxes            *)
(***************************************************************************)
InitTotals ==
    /\ NoCalls /\ NoInventory /\ NoPayments
    /\ NoReservations /\ NoTransactions /\ NoOrderNumbers
    /\ NoApiRows /\ NoBusinesses
    /\ products = [p \in Products |->
                      [track_inventory |-> TRUE,
                       has_variants |-> (\E v \in Variants : VariantProduct[v] = p),
                       stock_quantity |-> MaxStock]]
    /\ variants = [v \in Variants |-> [stock_quantity |-> MaxStock]]
    /\ orders \in [Orders -> {NewOrder(sc) : sc \in ShippingCosts}]
    /\ items = <<>>
    /\ statusHistory = <<>>
    /\ now = 1
    /\ resp = NoResp

TotalsAddItem ==
    \E o \in Orders, p \in Products, q \in Quantities, price \in Prices,
       pct \in Percentages, rate \in TaxRates :
        OrderItemCreate(o, p, None, q, price, pct, rate)

TotalsUpdateItem ==
    \E k \in 1..MaxItems, q \in Quantities, price \in Prices,
       pct \in Percentages, rate \in TaxRates :
        OrderItemUpdate(k, q, price, pct, rate)

TotalsSetShipping ==
    \E o \in Orders, sc \in ShippingCosts : OrderUpdate(o, orders[o].status, sc)

NextTotals ==
    \/ TotalsAddItem
    \/ TotalsUpdateItem
    \/ TotalsSetShipping

SpecTotals == InitTotals /\ [][NextTotals]_vars

(***************************************************************************)
(* Claims about Order.mark_as_confirmed (SpecConfirm)                      *)
(***************************************************************************)
IsTracked(item) == products[item.product].track_inventory

\* the stock an item draws on: the variant's when the product has variants
UsesVariant(item) == products[item.product].has_variants /\ item.variant # None
UsesProduct(item) == ~products[item.product].has_variants

SourceStock(ps, vs, item) ==
    IF ps[item.product].has_variants THEN vs[item.variant].stock_quantity
    ELSE ps[item.product].stock_quantity

LacksStock(item) ==
    /\ IsTracked(item)
    /\ UsesVariant(item) \/ UsesProduct(item)
    /\ item.quantity > SourceStock(products, variants, item)

OrderItemSet(o) == {k \in 1..Len(items) : items[k].order = o}

ConfirmCalled(o) == resp'.op = "mark_as_confirmed" /\ resp'.target = o

\* C1: a pending order with an item that asks for more than its stock source
\* holds is refused with ValidationError, and stock, order and history stay
\* as they were.
C1_FailureIsAllOrNothing ==
    [][\A o \in Orders :
          (/\ ConfirmCalled(o)
           /\ orders[o].status = "pending"
           /\ \E k \in OrderItemSet(o) : LacksStock(items[k]))
          => /\ resp'.result = "ValidationError"
             /\ UNCHANGED <<products, variants, orders, statusHistory>>]_vars

\* a refused confirmation of an order whose first item could have been
\* deducted and whose later item lacks stock
C1_Witness ==
    /\ resp.op = "mark_as_confirmed"
    /\ resp.result = "ValidationError"
    /\ resp.reason = "insufficient_stock"
    /\ orders[resp.target].status = "pending"
    /\ \E k1, k2 \in OrderItemSet(resp.target) :
          /\ k1 < k2
          /\ IsTracked(items[k1]) /\ ~LacksStock(items[k1])
          /\ UsesVariant(items[k1]) \/ UsesProduct(items[k1])
          /\ LacksStock(items[k2])

\* quantity the order's tracked items draw from the stock source of item k
DrawnFromSameSource(o, k) ==
    LET same == {j \in OrderItemSet(o) :
                    /\ IsTracked(items[j])
                    /\ items[j].product = items[k].product
                    /\ UsesVariant(items[k]) => items[j].variant = items[k].variant}
        RECURSIVE Sum(_)
        Sum(S) == IF S = {} THEN 0
                  ELSE LET j == CHOOSE j \in S : TRUE
                       IN  items[j].quantity + Sum(S \ {j})
    IN  Sum(same)

\* C2: after a successful confirmation the stock source of every tracked item
\* holds its earlier stock minus the quantity ordered from it (the sum, when
\* several items draw on the same product or variant).
C2_StockDropsByOrderedQuantity ==
    [][\A o \in Orders :
          (ConfirmCalled(o) /\ resp'.result = "ok")
          => \A k \in OrderItemSet(o) :
                IsTracked(items[k])
                => SourceStock(products', variants', items[k])
                     = SourceStock(products, variants, items[k])
                         - DrawnFromSameSource(o, k)]_vars

\* C3: mark_as_confirmed on an order that is not pending is refused with
\* ValidationError; stock, order and history stay as they were.
C3_OnlyPendingIsConfirmed ==
    [][\A o \in Orders :
          (ConfirmCalled(o) /\ orders[o].status # "pending")
          => /\ resp'.result = "ValidationError"
             /\ UNCHANGED <<products, variants, orders, statusHistory>>]_vars

\* a second confirmation refused on an order that was confirmed before and
\* whose items could be deducted once more
C3_Witness ==
    /\ resp.op = "mark_as_confirmed"
    /\ resp.result = "ValidationError"
    /\ resp.reason = "not_pending"
    /\ orders[resp.target].status = "confirmed"
    /\ \E h \in 1..Len(statusHistory) :
          statusHistory[h].order = resp.target /\ statusHistory[h].new_status = "confirmed"
    /\ \E k \in OrderItemSet(resp.target) :
          IsTracked(items[k]) /\ ~LacksStock(items[k])
          /\ (UsesVariant(items[k]) \/ UsesProduct(items[k]))

\* the order of the states of an order
StatusChain ==
    <<"draft", "pending", "confirmed", "processing", "ready", "completed">>

TERMINAL_STATUSES == {"completed", "cancelled", "refunded"}

NextInChain(a, b) ==
    \E i \in 1..(Len(StatusChain) - 1) : StatusChain[i] = a /\ StatusChain[i + 1] = b

LegalStatusChange(a, b) ==
    \/ NextInChain(a, b)
    \/ b \in {"cancelled", "refunded"} /\ a \notin TERMINAL_STATUSES

\* C13: whatever operation is applied to an order, its status either stays
\* or moves one step along draft, pending, confirmed, processing, ready,
\* completed, or goes to cancelled or refunded from a non-terminal status.
C13_StatusFollowsTheChain ==
    [][\A o \in Orders :
          orders'[o].status # orders[o].status =>
              LegalStatusChange(orders[o].status, orders'[o].status)]_vars

HistoryRowsOf(h, o) == {k \in 1..Len(h) : h[k].order = o}

\* C14: a mark_as_confirmed that succeeds leaves the order confirmed with
\* confirmed_at stamped and appends exactly one history row (pending,
\* confirmed, the acting user); one that fails changes neither the order
\* nor the history.
C14_ConfirmationWritesOneHistoryRow ==
    [][\A o \in Orders :
          ConfirmCalled(o) =>
              IF resp'.result = "ok"
              THEN /\ orders'[o].status = "confirmed"
                   /\ orders'[o].confirmed_at = now
                   /\ Len(statusHistory') = Len(statusHistory) + 1
                   /\ SubSeq(statusHistory', 1, Len(statusHistory)) = statusHistory
                   /\ LET row == statusHistory'[Len(statusHistory')]
                      IN  /\ row.order = o
                          /\ row.previous_status = "pending"
                          /\ row.new_status = "confirmed"
                          /\ row.changed_by \in Users
              ELSE /\ orders' = orders
                   /\ statusHistory' = statusHistory]_vars

\* an order with an item was confirmed and its history row is the last one
C14_Witness ==
    /\ resp = Resp("mark_as_confirmed", "o1", "ok", None)
    /\ orders["o1"].status = "confirmed"
    /\ OrderItemSet("o1") # {}
    /\ HistoryRowsOf(statusHistory, "o1") = {Len(statusHistory)}

(***************************************************************************)
(* Claims about OrderItem.save and Order.calculate_totals (SpecTotals)     *)
(***************************************************************************)
ItemSaved == resp.op = "item_save" /\ resp.result = "ok"

SavedItem == items[resp.target]

SumOverItems(o, f) == SumField(items, ItemsOf(items, o), f, 1)

\* C7 as stated: right after an item save the order's total is the sum of
\* the totals of its items.
C7_TotalIsSumOfItemTotals ==
    ItemSaved => orders[SavedItem.order].total = SumOverItems(SavedItem.order, "total")

\* C7 as amended: right after an item save the order's total is its
\* shipping_cost plus the sum over its items of the stored
\* subtotal - discount_amount + tax_amount.
C7_TotalIsSumOfPartsPlusShipping ==
    ItemSaved =>
        LET o == SavedItem.order
        IN  /\ orders[o].subtotal = SumOverItems(o, "subtotal")
            /\ orders[o].discount_amount = SumOverItems(o, "discount_amount")
            /\ orders[o].tax_amount = SumOverItems(o, "tax_amount")
            /\ orders[o].total = SumOverItems(o, "subtotal")
                                   - SumOverItems(o, "discount_amount")
                                   + SumOverItems(o, "tax_amount")
                                   + orders[o].shipping_cost

\* an item saved into an order that holds two items, with shipping, a
\* discount and a tax
C7_Witness ==
    /\ ItemSaved
    /\ Len(ItemsOf(items, SavedItem.order)) >= 2
    /\ orders[SavedItem.order].shipping_cost > 0
    /\ SumOverItems(SavedItem.order, "tax_amount") > 0
    /\ SumOverItems(SavedItem.order, "discount_amount") > 0

\* the four amounts as the formulas give them from the item's own fields,
\* each rounded to the two decimals of its column
FormulaAmounts(quantity, unit_price, discount_percentage, tax_rate) ==
    LET subtotal        == unit_price * quantity * Unit
        discount_amount == (subtotal * discount_percentage) \div 100
        tax_amount      == ((subtotal - discount_amount) * tax_rate) \div 100
    IN  [subtotal        |-> Quantize(subtotal),
         discount_amount |-> Quantize(discount_amount),
         tax_amount      |-> Quantize(tax_amount),
         total           |-> Quantize(subtotal - discount_amount + tax_amount)]

\* C8: after every item save the stored subtotal, discount_amount,
\* tax_amount and total are the ones the formulas give for the item's
\* quantity, unit_price, discount_percentage and tax_rate.
C8_StoredAmountsFollowFormulas ==
    ItemSaved =>
        LET f == FormulaAmounts(SavedItem.quantity, SavedItem.unit_price,
                                SavedItem.discount_percentage, SavedItem.tax_rate)
        IN  /\ SavedItem.subtotal = f.subtotal
            /\ SavedItem.discount_amount = f.discount_amount
            /\ SavedItem.tax_amount = f.tax_amount
            /\ SavedItem.total = f.total

(***************************************************************************)
(* Reservations                                                            *)
(***************************************************************************)
MaxSlot       == 3     \* last time slot a reservation may start or end at
MaxResHistory == 1     \* ReservationStatusHistory rows after which no status is changed

ResIds    == {"r1", "r2"}
Providers == {"x", "y"}
Slots     == 1..MaxSlot

STATUS_CHOICES ==
    {"pending", "confirmed", "in_progress", "completed", "cancelled", "no_show"}

\* statuses sent to change_status and to an update; "archived" is no choice
ResStatusInputs == {"confirmed", "cancelled", "archived"}

NoReservation == [exists |-> FALSE]

Exists(res, r) == res[r].exists

\* Reservation.clean: the overlap query
Overlapping(res, r, service_provider, start_datetime, end_datetime) ==
    {x \in ResIds \ {r} :
        /\ Exists(res, x)
        /\ res[x].service_provider = service_provider
        /\ res[x].status \in {"pending", "confirmed", "in_progress"}
        /\ res[x].start_datetime < end_datetime
        /\ res[x].end_datetime > start_datetime}

\* Reservation.clean: the ValidationError it raises, or None
ReservationClean(res, r, service_provider, start_datetime, end_datetime) ==
    IF end_datetime <= start_datetime THEN "end_before_start"
    ELSE IF service_provider # None
            /\ Overlapping(res, r, service_provider, start_datetime, end_datetime) # {}
         THEN "overlap"
         ELSE None

NewReservation(service_provider, start_datetime, end_datetime, requires_deposit) ==
    [exists |-> TRUE, service_provider |-> service_provider,
     start_datetime |-> start_datetime, end_datetime |-> end_datetime,
     status |-> "pending", requires_deposit |-> requires_deposit,
     deposit_paid |-> FALSE, confirmed_at |-> None, confirmed_by |-> None]

HistoryRow(r, previous_status, new_status, user) ==
    [reservation |-> r, previous_status |-> previous_status,
     new_status |-> new_status, changed_by |-> user]

(***************************************************************************)
(* Reservation.save of a new instance (Reservation.objects.create): the    *)
(* row is inserted; save does not call clean.                              *)
(***************************************************************************)
ReservationSave(r, service_provider, start_datetime, end_datetime, requires_deposit) ==
    /\ ~Exists(reservations, r)
    /\ reservations' = [reservations EXCEPT ![r] =
           NewReservation(service_provider, start_datetime, end_datetime,
                          requires_deposit)]
    /\ resp' = Resp("reservation_save", r, "ok", None)
    /\ UNCHANGED <<resHistory, now, nonResVars>>

(***************************************************************************)
(* The admin site's add form (admin.site.register(Reservation)): the model *)
(* form runs Reservation.clean and saves only when it raises nothing.      *)
(***************************************************************************)
AdminAdd(r, service_provider, start_datetime, end_datetime, requires_deposit) ==
    /\ ~Exists(reservations, r)
    /\ LET err == ReservationClean(reservations, r, service_provider,
                                   start_datetime, end_datetime)
       IN  IF err # None
           THEN /\ resp' = Resp("admin_add", r, "ValidationError", err)
                /\ UNCHANGED reservations
           ELSE /\ reservations' = [reservations EXCEPT ![r] =
                       NewReservation(service_provider, start_datetime,
                                      end_datetime, requires_deposit)]
                /\ resp' = Resp("admin_add", r, "ok", None)
    /\ UNCHANGED <<resHistory, now, nonResVars>>

(***************************************************************************)
(* POST /reservations/ with ReservationCreateSerializer: validate rejects  *)
(* end <= start; the serializer has no duration_minutes field, the column  *)
(* is NOT NULL without default, so the INSERT fails.                       *)
(***************************************************************************)
ApiCreate(r, service_provider, start_datetime, end_datetime, requires_deposit) ==
    /\ ~Exists(reservations, r)
    /\ resp' = IF end_datetime <= start_datetime
               THEN Resp("api_create", r, "ValidationError", "end_before_start")
               ELSE Resp("api_create", r, "IntegrityError", "duration_minutes")
    /\ UNCHANGED <<reservations, resHistory, now, nonResVars>>

(***************************************************************************)
(* PUT/PATCH /reservations/{r}/ with ReservationSerializer (all fields):   *)
(* the fields are set and Reservation.save is called; save does not call   *)
(* clean.  A status that is no choice is rejected by the serializer.       *)
(***************************************************************************)
ApiUpdate(r, service_provider, start_datetime, end_datetime, status, deposit_paid) ==
    /\ Exists(reservations, r)
    /\ IF status \notin STATUS_CHOICES
       THEN /\ resp' = Resp("api_update", r, "ValidationError", "invalid_choice")
            /\ UNCHANGED reservations
       ELSE /\ reservations' = [reservations EXCEPT
                   ![r].service_provider = service_provider,
                   ![r].start_datetime = start_datetime,
                   ![r].end_datetime = end_datetime,
                   ![r].status = status,
                   ![r].deposit_paid = deposit_paid]
            /\ resp' = Resp("api_update", r, "ok", None)
    /\ UNCHANGED <<resHistory, now, nonResVars>>

(***************************************************************************)
(* POST /reservations/{r}/change_status/                                   *)
(***************************************************************************)
change_status(r, new_status, user) ==
    /\ Exists(reservations, r)
    /\ Len(resHistory) < MaxResHistory
    /\ IF new_status \notin STATUS_CHOICES
       THEN /\ resp' = Resp("change_status", r, "BadRequest", "invalid_status")
            /\ UNCHANGED <<reservations, resHistory>>
       ELSE /\ reservations' = [reservations EXCEPT ![r].status = new_status]
            /\ resHistory' = Append(resHistory,
                   HistoryRow(r, reservations[r].status, new_status, user))
            /\ resp' = Resp("change_status", r, "ok", None)
    /\ UNCHANGED <<now, nonResVars>>

(***************************************************************************)
(* Reservation.confirm_reservation(user), inside transaction.atomic        *)
(***************************************************************************)
confirm_reservation(r, user) ==
    /\ Exists(reservations, r)
    /\ Len(resHistory) < MaxResHistory
    /\ IF reservations[r].status # "pending"
       THEN /\ resp' = Resp("confirm_reservation", r, "ValidationError", "not_pending")
            /\ UNCHANGED <<reservations, resHistory>>
       ELSE IF reservations[r].requires_deposit /\ ~reservations[r].deposit_paid
       THEN /\ resp' = Resp("confirm_reservation", r, "ValidationError",
                            "deposit_required")
            /\ UNCHANGED <<reservations, resHistory>>
       ELSE /\ reservations' = [reservations EXCEPT ![r].status = "confirmed",
                                                    ![r].confirmed_at = now,
                                                    ![r].confirmed_by = user]
            /\ resHistory' = Append(resHistory,
                   HistoryRow(r, "pending", "confirmed", user))
            /\ resp' = Resp("confirm_reservation", r, "ok", None)
    /\ UNCHANGED <<now, nonResVars>>

(***************************************************************************)
(* SpecRes                                                                 *)
(***************************************************************************)
InitRes ==
    /\ NoCalls /\ NoInventory /\ NoPayments
    /\ NoOrders /\ NoTransactions /\ NoOrderNumbers
    /\ NoApiRows /\ NoBusinesses
    /\ reservations = [r \in ResIds |-> NoReservation]
    /\ resHistory = <<>>
    /\ now = 1
    /\ resp = NoResp

ResSave ==
    \E r \in ResIds, p \in Providers, s \in Slots, e \in Slots, d \in BOOLEAN :
        s < e /\ ReservationSave(r, p, s, e, d)

ResAdminAdd ==
    \E r \in ResIds, p \in Providers, s \in Slots, e \in Slots, d \in BOOLEAN :
        AdminAdd(r, p, s, e, d)

ResApiCreate ==
    \E r \in ResIds, p \in Providers, s \in Slots, e \in Slots, d \in BOOLEAN :
        ApiCreate(r, p, s, e, d)

\* a PATCH of start_datetime and end_datetime
ResApiMove ==
    \E r \in ResIds, s \in Slots, e \in Slots :
        /\ s < e
        /\ Exists(reservations, r)
        /\ ApiUpdate(r, reservations[r].service_provider, s, e,
                     reservations[r].status, reservations[r].deposit_paid)

\* a PATCH of the status
ResApiSetStatus ==
    \E r \in ResIds, st \in ResStatusInputs :
        /\ Exists(reservations, r)
        /\ ApiUpdate(r, reservations[r].service_provider,
                     reservations[r].start_datetime, reservations[r].end_datetime,
                     st, reservations[r].deposit_paid)

\* a PATCH of deposit_paid once the deposit is received
ResApiPayDeposit ==
    \E r \in ResIds :
        /\ Exists(reservations, r)
        /\ reservations[r].requires_deposit
        /\ ApiUpdate(r, reservations[r].service_provider,
                     reservations[r].start_datetime, reservations[r].end_datetime,
                     reservations[r].status, TRUE)

ResChangeStatus ==
    \E r \in ResIds, st \in ResStatusInputs, u \in Users : change_status(r, st, u)

ResConfirm == \E r \in ResIds, u \in Users : confirm_reservation(r, u)

NextRes ==
    \/ ResSave
    \/ ResAdminAdd
    \/ ResApiCreate
    \/ ResApiMove
    \/ ResApiSetStatus
    \/ ResApiPayDeposit
    \/ ResChangeStatus
    \/ ResConfirm

SpecRes == InitRes /\ [][NextRes]_vars

(***************************************************************************)
(* Finance: transactions and their entries.  entries is the bag of rows of *)
(* transaction_entries, a row being (transaction, entry_type, amount) with *)
(* the amount in cents.                                                    *)
(***************************************************************************)
MaxEntries == 3     \* rows of transaction_entries
MaxAmount  == 2     \* largest entry amount

Txns == {"t1", "t2"}
ENTRY_TYPE_CHOICES == {"debit", "credit"}

\* amounts sent to the entry endpoints; MinValueValidator(0) rejects -1
AmountInputs == {-1, 0, MaxAmount}

NoTransaction == [exists |-> FALSE]

NewTransaction == [exists |-> TRUE, is_posted |-> FALSE, posted_at |-> None]

Entry(t, entry_type, amount) ==
    [transaction |-> t, entry_type |-> entry_type, amount |-> amount]

\* transaction.entries.all().filter(entry_type=...)
EntriesOf(es, t, entry_type) ==
    {e \in BagToSet(es) : e.transaction = t /\ e.entry_type = entry_type}

RECURSIVE SumRows(_, _)
SumRows(es, S) ==
    IF S = {} THEN 0
    ELSE LET e == CHOOSE x \in S : TRUE
         IN  e.amount * CopiesIn(e, es) + SumRows(es, S \ {e})

\* aggregate(total=Sum("amount"))["total"]: NULL ({}) over no rows
AggregateSum(es, t, entry_type) ==
    IF EntriesOf(es, t, entry_type) = {} THEN {}
    ELSE {SumRows(es, EntriesOf(es, t, entry_type))}

\* total or 0
OrZero(total) == IF total = {} THEN 0 ELSE CHOOSE x \in total : TRUE

(***************************************************************************)
(* POST /transactions/                                                     *)
(***************************************************************************)
TransactionCreate(t) ==
    /\ ~transactions[t].exists
    /\ transactions' = [transactions EXCEPT ![t] = NewTransaction]
    /\ resp' = Resp("transaction_create", t, "ok", None)
    /\ UNCHANGED <<entries, now, nonFinVars>>

(***************************************************************************)
(* TransactionEntryViewSet: POST, PUT and DELETE of an entry.  Nothing     *)
(* looks at the transaction's is_posted.                                   *)
(***************************************************************************)
EntryCreate(t, entry_type, amount) ==
    /\ transactions[t].exists
    /\ BagCardinality(entries) < MaxEntries
    /\ IF amount < 0
       THEN /\ resp' = Resp("entry_create", t, "ValidationError", "min_value")
            /\ UNCHANGED entries
       ELSE /\ entries' = entries (+) SetToBag({Entry(t, entry_type, amount)})
            /\ resp' = Resp("entry_create", t, "ok", None)
    /\ UNCHANGED <<transactions, now, nonFinVars>>

EntryUpdate(e, entry_type, amount) ==
    /\ BagIn(e, entries)
    /\ IF amount < 0
       THEN /\ resp' = Resp("entry_update", e.transaction, "ValidationError", "min_value")
            /\ UNCHANGED entries
       ELSE /\ entries' = (entries (-) SetToBag({e}))
                              (+) SetToBag({Entry(e.transaction, entry_type, amount)})
            /\ resp' = Resp("entry_update", e.transaction, "ok", None)
    /\ UNCHANGED <<transactions, now, nonFinVars>>

EntryDelete(e) ==
    /\ BagIn(e, entries)
    /\ entries' = entries (-) SetToBag({e})
    /\ resp' = Resp("entry_delete", e.transaction, "ok", None)
    /\ UNCHANGED <<transactions, now, nonFinVars>>

(***************************************************************************)
(* POST /transactions/{t}/post/                                            *)
(***************************************************************************)
post_no_balance_check(t) ==
    /\ transactions[t].exists
    /\ IF transactions[t].is_posted
       THEN /\ resp' = Resp("post", t, "BadRequest", "already_posted")
            /\ UNCHANGED transactions
       ELSE /\ transactions' = [transactions EXCEPT ![t].is_posted = TRUE,
                                                    ![t].posted_at = now]
            /\ resp' = Resp("post", t, "ok", None)
    /\ UNCHANGED <<entries, now, nonFinVars>>

post_no_posted_guard(t) ==
    /\ transactions[t].exists
    /\ LET debit  == OrZero(AggregateSum(entries, t, "debit"))
           credit == OrZero(AggregateSum(entries, t, "credit"))
       IN  IF debit # credit
           THEN /\ resp' = Resp("post", t, "BadRequest", "not_balanced")
                /\ UNCHANGED transactions
           ELSE /\ transactions' = [transactions EXCEPT ![t].is_posted = TRUE,
                                                        ![t].posted_at = now]
                /\ resp' = Resp("post", t, "ok", None)
    /\ UNCHANGED <<entries, now, nonFinVars>>

post(t) ==
    /\ transactions[t].exists
    /\ IF transactions[t].is_posted
       THEN /\ resp' = Resp("post", t, "BadRequest", "already_posted")
            /\ UNCHANGED transactions
       ELSE LET debit  == OrZero(AggregateSum(entries, t, "debit"))
                credit == OrZero(AggregateSum(entries, t, "credit"))
            IN  IF debit # credit
                THEN /\ resp' = Resp("post", t, "BadRequest", "not_balanced")
                     /\ UNCHANGED transactions
                ELSE /\ transactions' = [transactions EXCEPT ![t].is_posted = TRUE,
                                                             ![t].posted_at = now]
                     /\ resp' = Resp("post", t, "ok", None)
    /\ UNCHANGED <<entries, now, nonFinVars>>

\* time passes between two requests
FinTick ==
    /\ now < MaxNow
    /\ now' = now + 1
    /\ resp' = NoResp
    /\ UNCHANGED <<transactions, entries, nonFinVars>>

(***************************************************************************)
(* SpecFin                                                                 *)
(***************************************************************************)
InitFin ==
    /\ NoCalls /\ NoInventory /\ NoPayments
    /\ NoOrders /\ NoReservations /\ NoOrderNumbers
    /\ NoApiRows /\ NoBusinesses
    /\ transactions = [t \in Txns |-> NoTransaction]
    /\ entries = EmptyBag
    /\ now = 1
    /\ resp = NoResp

FinCreate == \E t \in Txns : TransactionCreate(t)

FinEntryCreate ==
    \E t \in Txns, ty \in ENTRY_TYPE_CHOICES, a \in AmountInputs : EntryCreate(t, ty, a)

FinEntryUpdate ==
    \E e \in BagToSet(entries), ty \in ENTRY_TYPE_CHOICES, a \in AmountInputs :
        EntryUpdate(e, ty, a)

FinEntryDelete == \E e \in BagToSet(entries) : EntryDelete(e)

FinPost == \E t \in Txns : post(t)

NextFin ==
    \/ FinCreate
    \/ FinEntryCreate
    \/ FinEntryUpdate
    \/ FinEntryDelete
    \/ FinPost
    \/ FinTick

SpecFin == InitFin /\ [][NextFin]_vars

(***************************************************************************)
(* Order numbers.  orderNumbers is the orders table reduced to the columns *)
(* Order.save reads: a row is (business, date, number), number being the   *)
(* digits after "ORD-<date>-", and order_number = "ORD-<date>-<number>" is *)
(* unique over the whole table.                                            *)
(***************************************************************************)
MaxOrderRows == 4     \* rows of the orders table
MaxDay       == 2     \* last day
PadWidth     == 4     \* {new_num:04d}

Businesses == {"b1", "b2"}

\* sequence numbers of the one row that is left of a busy day in Init
StartNums == {9998}

RECURSIVE Digits(_)
Digits(n) == IF n < 10 THEN <<n>> ELSE Append(Digits(n \div 10), n % 10)

\* f"{new_num:04d}"
Format04d(n) ==
    IF Len(Digits(n)) >= PadWidth THEN Digits(n)
    ELSE [i \in 1..(PadWidth - Len(Digits(n))) |-> 0] \o Digits(n)

\* int(order_number.split("-")[-1])
RECURSIVE ParseInt(_)
ParseInt(str) ==
    IF str = <<>> THEN 0
    ELSE ParseInt(SubSeq(str, 1, Len(str) - 1)) * 10 + str[Len(str)]

\* the order of order_by("order_number") on two digit strings
RECURSIVE StrLess(_, _)
StrLess(a, b) ==
    IF a = <<>> THEN b # <<>>
    ELSE IF b = <<>> THEN FALSE
    ELSE IF Head(a) # Head(b) THEN Head(a) < Head(b)
    ELSE StrLess(Tail(a), Tail(b))

OrderRow(business, date, number) ==
    [business |-> business, date |-> date, number |-> number]

\* filter(business=..., order_number__startswith="ORD-<date>")
NumbersOf(rows, business, date) ==
    {rows[i].number : i \in {k \in 1..Len(rows) :
                                rows[k].business = business /\ rows[k].date = date}}

\* order_by("-order_number").first()
LastNumber(S) == CHOOSE x \in S : \A y \in S : y = x \/ StrLess(y, x)

NextNumber(rows, business, date) ==
    IF NumbersOf(rows, business, date) = {} THEN Format04d(1)
    ELSE Format04d(ParseInt(LastNumber(NumbersOf(rows, business, date))) + 1)

\* the unique index on order_number
NumberTaken(rows, date, number) ==
    \E i \in 1..Len(rows) : rows[i].date = date /\ rows[i].number = number

RespNum(business, result, number) ==
    [op |-> "order_save", target |-> business, result |-> result,
     reason |-> None, order_number |-> number]

(***************************************************************************)
(* Order.save of a new order of the business                               *)
(***************************************************************************)
OrderSave(business) ==
    /\ Len(orderNumbers) < MaxOrderRows
    /\ LET number == NextNumber(orderNumbers, business, today)
       IN  IF NumberTaken(orderNumbers, today, number)
           THEN /\ resp' = RespNum(business, "IntegrityError", number)
                /\ UNCHANGED orderNumbers
           ELSE /\ orderNumbers' = Append(orderNumbers,
                                          OrderRow(business, today, number))
                /\ resp' = RespNum(business, "ok", number)
    /\ UNCHANGED <<today, now, nonNumVars>>

\* midnight
NextDay ==
    /\ today < MaxDay
    /\ today' = today + 1
    /\ resp' = NoResp
    /\ UNCHANGED <<orderNumbers, now, nonNumVars>>

(***************************************************************************)
(* SpecNum.  The table starts empty, or with the one row that is left when *)
(* the earlier orders of business b1 of the day have been deleted          *)
(* (DELETE /orders/{id}/ removes the row).                                 *)
(***************************************************************************)
InitNum ==
    /\ NoCalls /\ NoInventory /\ NoPayments
    /\ NoOrders /\ NoReservations /\ NoTransactions
    /\ NoApiRows /\ NoBusinesses
    /\ today = 1
    /\ orderNumbers \in
           {<<>>} \cup {<<OrderRow("b1", 1, Format04d(n))>> : n \in StartNums}
    /\ now = 1
    /\ resp = NoResp

NumSave == \E b \in Businesses : OrderSave(b)

NextNum ==
    \/ NumSave
    \/ NextDay

SpecNum == InitNum /\ [][NextNum]_vars

(***************************************************************************)
(* The API layer of products and orders: who the caller is, the rows the   *)
(* ViewSet's queryset gives them, and the permission classes.              *)
(***************************************************************************)
Callers == {"u1", "su"}

\* "su" was made by create_superuser: is_staff and is_superuser
is_staff(user) == user = "su"

ProductIds == {"x1", "x2"}
OrderIds   == {"y1", "y2"}

ROLE_CHOICES == {"owner", "admin", "manager", "employee", "cashier"}

NoMember == [exists |-> FALSE]

Member(role, is_active) == [exists |-> TRUE, role |-> role, is_active |-> is_active]

NoRow == [exists |-> FALSE]

\* BusinessMember.objects.filter(business=..., user=..., is_active=True).exists()
is_member(ms, user, business) ==
    ms[<<user, business>>].exists /\ ms[<<user, business>>].is_active

\* BusinessMember.objects.filter(user=user, is_active=True).values_list("business_id")
user_businesses(ms, user) == {b \in Businesses : is_member(ms, user, b)}

NewProductRow(business, name) ==
    [exists |-> TRUE, business |-> business, name |-> name,
     is_deleted |-> FALSE, deleted_at |-> None]

NewOrderRow(business, customer, warehouse) ==
    [exists |-> TRUE, business |-> business, customer |-> customer,
     warehouse |-> warehouse, order_number |-> "generated", total |-> "computed",
     confirmed_at |-> None, notes |-> "", is_deleted |-> FALSE,
     deleted_at |-> None]

\* the columns OrderSerializer (fields = "__all__") writes; id, order_date,
\* created_at and updated_at are not editable and are dropped from the input
ORDER_WRITABLE ==
    {"business", "customer", "warehouse", "order_number", "total",
     "confirmed_at", "notes", "is_deleted", "deleted_at"}

ApiResp(op, caller, target, result, data) ==
    [op |-> op, target |-> target, result |-> result, reason |-> None,
     caller |-> caller, data |-> data]

(***************************************************************************)
(* BusinessFilterMixin.get_queryset over Product.objects.all()             *)
(***************************************************************************)
BusinessFilterMixin(ms, rows, user, business_id) ==
    IF is_staff(user) THEN {x \in DOMAIN rows : rows[x].exists}
    ELSE IF business_id # None
    THEN IF is_member(ms, user, business_id)
         THEN {x \in DOMAIN rows : rows[x].exists /\ rows[x].business = business_id}
         ELSE {}
    ELSE {x \in DOMAIN rows :
             rows[x].exists /\ rows[x].business \in user_businesses(ms, user)}

(***************************************************************************)
(* IsBusinessMemberOrReadOnly.has_object_permission; safe is whether the   *)
(* method is one of SAFE_METHODS                                           *)
(***************************************************************************)
has_object_permission(ms, user, business, safe) ==
    IF is_staff(user) THEN TRUE
    ELSE IF safe THEN is_member(ms, user, business)
    ELSE IF is_member(ms, user, business)
    THEN ms[<<user, business>>].role \in {"owner", "admin"}
    ELSE FALSE

\* get_object and check_object_permissions of a product detail route
ProductAccess(user, x, safe) ==
    IF x \notin BusinessFilterMixin(members, productRows, user, None) THEN "NotFound"
    ELSE IF ~has_object_permission(members, user, productRows[x].business, safe)
    THEN "PermissionDenied"
    ELSE "ok"

(***************************************************************************)
(* ProductViewSet                                                          *)
(***************************************************************************)
ProductViewSet_list(caller, business_id) ==
    /\ resp' = ApiResp("product_list", caller, business_id, "ok",
                       BusinessFilterMixin(members, productRows, caller, business_id))
    /\ UNCHANGED <<apiVars, now, nonApiVars>>

ProductViewSet_retrieve(caller, x) ==
    /\ resp' = ApiResp("product_retrieve", caller, x, ProductAccess(caller, x, TRUE),
                       IF ProductAccess(caller, x, TRUE) = "ok" THEN {x} ELSE {})
    /\ UNCHANGED <<apiVars, now, nonApiVars>>

\* perform_create: the role test; PermissionDenied is not imported in
\* core/views.py, so the refusal is a NameError
ProductViewSet_create(caller, x, business, name) ==
    /\ ~productRows[x].exists
    /\ IF is_member(members, caller, business)
          /\ members[<<caller, business>>].role \in {"owner", "admin", "manager"}
       THEN /\ productRows' = [productRows EXCEPT ![x] = NewProductRow(business, name)]
            /\ resp' = ApiResp("product_create", caller, x, "ok", {})
       ELSE /\ resp' = ApiResp("product_create", caller, x, "NameError", {})
            /\ UNCHANGED productRows
    /\ UNCHANGED <<members, orderRows, now, nonApiVars>>

ProductViewSet_update(caller, x, name) ==
    /\ IF ProductAccess(caller, x, FALSE) = "ok"
       THEN productRows' = [productRows EXCEPT ![x].name = name]
       ELSE UNCHANGED productRows
    /\ resp' = ApiResp("product_update", caller, x, ProductAccess(caller, x, FALSE), {})
    /\ UNCHANGED <<members, orderRows, now, nonApiVars>>

\* DestroyModelMixin.perform_destroy: instance.delete()
ProductViewSet_destroy(caller, x) ==
    /\ IF ProductAccess(caller, x, FALSE) = "ok"
       THEN productRows' = [productRows EXCEPT ![x] = NoRow]
       ELSE UNCHANGED productRows
    /\ resp' = ApiResp("product_destroy", caller, x, ProductAccess(caller, x, FALSE), {})
    /\ UNCHANGED <<members, orderRows, now, nonApiVars>>

(***************************************************************************)
(* OrderViewSet: permission_classes = [IsAuthenticated]                    *)
(***************************************************************************)
\* Order.objects.filter(is_deleted=False)
OrderQueryset(rows) == {y \in DOMAIN rows : rows[y].exists /\ ~rows[y].is_deleted}

OrderViewSet_list(caller) ==
    /\ resp' = ApiResp("order_list", caller, None, "ok", OrderQueryset(orderRows))
    /\ UNCHANGED <<apiVars, now, nonApiVars>>

OrderViewSet_retrieve(caller, y) ==
    /\ resp' = IF y \in OrderQueryset(orderRows)
               THEN ApiResp("order_retrieve", caller, y, "ok", {y})
               ELSE ApiResp("order_retrieve", caller, y, "NotFound", {})
    /\ UNCHANGED <<apiVars, now, nonApiVars>>

\* POST /orders/ : OrderCreateSerializer names payment_method, which is no
\* field of Order, so building its fields raises ImproperlyConfigured
OrderViewSet_create(caller, y, business, customer, warehouse) ==
    /\ ~orderRows[y].exists
    /\ resp' = ApiResp("order_create", caller, y, "ImproperlyConfigured", {})
    /\ UNCHANGED <<apiVars, now, nonApiVars>>

\* PATCH /orders/{y}/ of one field
OrderViewSet_update(caller, y, field, value) ==
    /\ IF y \notin OrderQueryset(orderRows)
       THEN /\ resp' = ApiResp("order_update", caller, y, "NotFound", {})
            /\ UNCHANGED orderRows
       ELSE /\ orderRows' = IF field \in ORDER_WRITABLE
                            THEN [orderRows EXCEPT ![y][field] = value]
                            ELSE orderRows
            /\ resp' = ApiResp("order_update", caller, y, "ok", {})
    /\ UNCHANGED <<members, productRows, now, nonApiVars>>

OrderViewSet_destroy(caller, y) ==
    /\ IF y \notin OrderQueryset(orderRows)
       THEN /\ resp' = ApiResp("order_destroy", caller, y, "NotFound", {})
            /\ UNCHANGED orderRows
       ELSE /\ orderRows' = [orderRows EXCEPT ![y] = NoRow]
            /\ resp' = ApiResp("order_destroy", caller, y, "ok", {})
    /\ UNCHANGED <<members, productRows, now, nonApiVars>>

(***************************************************************************)
(* Order.clean: the ValidationError it raises, or None.  customer and      *)
(* warehouse are given by the business they belong to.                     *)
(***************************************************************************)
OrderClean(business, customer, warehouse) ==
    IF warehouse # None /\ warehouse # business THEN "warehouse"
    ELSE IF customer # None /\ customer # business THEN "customer"
    ELSE None

\* Order.save of a new order (Order.objects.create): save does not call clean
OrderCreate(y, business, customer, warehouse) ==
    /\ ~orderRows[y].exists
    /\ orderRows' = [orderRows EXCEPT ![y] = NewOrderRow(business, customer, warehouse)]
    /\ resp' = ApiResp("order_save", None, y, "ok", {})
    /\ UNCHANGED <<members, productRows, now, nonApiVars>>

\* the admin site's add form of Order (admin.register(Order)) runs clean
OrderAdminAdd(y, business, customer, warehouse) ==
    /\ ~orderRows[y].exists
    /\ IF OrderClean(business, customer, warehouse) # None
       THEN /\ resp' = ApiResp("order_admin_add", None, y, "ValidationError", {})
            /\ UNCHANGED orderRows
       ELSE /\ orderRows' = [orderRows EXCEPT ![y] =
                                NewOrderRow(business, customer, warehouse)]
            /\ resp' = ApiResp("order_admin_add", None, y, "ok", {})
    /\ UNCHANGED <<members, productRows, now, nonApiVars>>

(***************************************************************************)
(* SoftDeleteModel.soft_delete on an order loaded from its row: the two    *)
(* attributes are set on the instance and "self.save" is not called, so    *)
(* no column is written.                                                   *)
(***************************************************************************)
soft_delete(y) ==
    /\ orderRows[y].exists
    /\ resp' = ApiResp("soft_delete", None, y, "ok", {})
    /\ UNCHANGED <<apiVars, now, nonApiVars>>

(***************************************************************************)
(* SpecApi: caller u1 holds any membership of business b1, or none, and    *)
(* none of b2; b2 already has a product, made by its own staff.            *)
(***************************************************************************)
RoleInputs == {"owner", "manager"}

InitApi ==
    /\ NoCalls /\ NoInventory /\ NoPayments
    /\ NoOrders /\ NoReservations /\ NoTransactions /\ NoOrderNumbers
    /\ NoBusinesses
    /\ \E m \in {NoMember} \cup {Member(r, a) : r \in RoleInputs, a \in BOOLEAN} :
          members = [k \in Callers \X Businesses |->
                        IF k = <<"u1", "b1">> THEN m ELSE NoMember]
    /\ productRows = [x \in ProductIds |->
                         IF x = "x2" THEN NewProductRow("b2", "old") ELSE NoRow]
    /\ orderRows = [y \in OrderIds |-> NoRow]
    /\ now = 1
    /\ resp = NoResp

ApiProductList ==
    \E c \in Callers, b \in Businesses \cup {None} : ProductViewSet_list(c, b)

ApiProductRetrieve ==
    \E c \in Callers, x \in ProductIds : ProductViewSet_retrieve(c, x)

ApiProductCreate ==
    \E c \in Callers, x \in ProductIds, b \in Businesses :
        ProductViewSet_create(c, x, b, "old")

ApiProductUpdate ==
    \E c \in Callers, x \in ProductIds : ProductViewSet_update(c, x, "new")

ApiProductDestroy ==
    \E c \in Callers, x \in ProductIds : ProductViewSet_destroy(c, x)

ApiOrderList == \E c \in Callers : OrderViewSet_list(c)

ApiOrderRetrieve == \E c \in Callers, y \in OrderIds : OrderViewSet_retrieve(c, y)

ApiOrderCreate ==
    \E c \in Callers, y \in OrderIds, b \in Businesses :
        OrderViewSet_create(c, y, b, None, None)

ApiOrderUpdate ==
    \E c \in Callers, y \in OrderIds : OrderViewSet_update(c, y, "notes", "edited")

ApiOrderDestroy == \E c \in Callers, y \in OrderIds : OrderViewSet_destroy(c, y)

ApiOrderSave == \E y \in OrderIds, b \in Businesses : OrderCreate(y, b, None, None)

ApiSoftDelete == \E y \in OrderIds : soft_delete(y)

NextApi ==
    \/ ApiProductList
    \/ ApiProductRetrieve
    \/ ApiProductCreate
    \/ ApiProductUpdate
    \/ ApiProductDestroy
    \/ ApiOrderList
    \/ ApiOrderRetrieve
    \/ ApiOrderCreate
    \/ ApiOrderUpdate
    \/ ApiOrderDestroy
    \/ ApiOrderSave
    \/ ApiSoftDelete

SpecApi == InitApi /\ [][NextApi]_vars

(***************************************************************************)
(* SpecOrderApi: one order, made by Order.save or by the admin form, and   *)
(* the fields a client sends to PATCH /orders/{y}/.                        *)
(***************************************************************************)
\* order_date is auto_now_add, hence not editable
PatchFields == {"order_number", "total", "confirmed_at", "order_date"}

InitOrderApi ==
    /\ NoCalls /\ NoInventory /\ NoPayments
    /\ NoOrders /\ NoReservations /\ NoTransactions /\ NoOrderNumbers
    /\ NoBusinesses
    /\ members = [k \in Callers \X Businesses |-> NoMember]
    /\ productRows = [x \in ProductIds |-> NoRow]
    /\ orderRows = [y \in OrderIds |-> NoRow]
    /\ now = 1
    /\ resp = NoResp

OrderApiSave ==
    \E b \in Businesses, c \in (Businesses \cup {None}), w \in (Businesses \cup {None}) :
        OrderCreate("y1", b, c, w)

OrderApiAdminAdd ==
    \E b \in Businesses, c \in (Businesses \cup {None}), w \in (Businesses \cup {None}) :
        OrderAdminAdd("y1", b, c, w)

OrderApiPost ==
    \E b \in Businesses, c \in (Businesses \cup {None}), w \in (Businesses \cup {None}) :
        OrderViewSet_create("u1", "y1", b, c, w)

OrderApiPatch ==
    \E f \in PatchFields : OrderViewSet_update("u1", "y1", f, "client")

OrderApiPatchCustomer ==
    \E f \in {"customer", "warehouse"}, b \in Businesses :
        OrderViewSet_update("u1", "y1", f, b)

OrderApiDestroy == OrderViewSet_destroy("u1", "y1")

NextOrderApi ==
    \/ OrderApiSave
    \/ OrderApiAdminAdd
    \/ OrderApiPost
    \/ OrderApiPatch
    \/ OrderApiPatchCustomer
    \/ OrderApiDestroy

SpecOrderApi == InitOrderApi /\ [][NextOrderApi]_vars

(***************************************************************************)
(* BusinessMember rows                                                     *)
(***************************************************************************)
\* roles sent to the member endpoints
\* BusinessMember.clean of the row (user, business) with the role it is to
\* get: the ValidationError it raises, or None
BusinessMemberClean(ms, user, business, role) ==
    IF /\ role = "owner"
       /\ \E k \in (Callers \X Businesses) :
             /\ k # <<user, business>>
             /\ k[2] = business
             /\ ms[k].exists /\ ms[k].role = "owner" /\ ms[k].is_active
    THEN "owner_exists"
    ELSE None

\* POST /business-members/ : BusinessMemberSerializer checks unique_together
\* (user, business) and saves; clean is not run
BusinessMemberViewSet_create(user, business, role, is_active) ==
    /\ IF members[<<user, business>>].exists
       THEN /\ resp' = Resp("member_create", <<user, business>>, "ValidationError",
                            "unique_together")
            /\ UNCHANGED members
       ELSE /\ members' = [members EXCEPT ![<<user, business>>] = Member(role, is_active)]
            /\ resp' = Resp("member_create", <<user, business>>, "ok", None)
    /\ UNCHANGED <<productRows, orderRows, now, nonApiVars>>

\* PUT/PATCH /business-members/{id}/
BusinessMemberViewSet_update(user, business, role, is_active) ==
    /\ members[<<user, business>>].exists
    /\ members' = [members EXCEPT ![<<user, business>>] = Member(role, is_active)]
    /\ resp' = Resp("member_update", <<user, business>>, "ok", None)
    /\ UNCHANGED <<productRows, orderRows, now, nonApiVars>>

\* the add and change forms of BusinessMemberAdmin: the model form runs
\* BusinessMember.clean and saves only when it raises nothing
BusinessMemberAdmin_save(user, business, role, is_active) ==
    /\ IF BusinessMemberClean(members, user, business, role) # None
       THEN /\ resp' = Resp("member_admin_save", <<user, business>>, "ValidationError",
                            "owner_exists")
            /\ UNCHANGED members
       ELSE /\ members' = [members EXCEPT ![<<user, business>>] = Member(role, is_active)]
            /\ resp' = Resp("member_admin_save", <<user, business>>, "ok", None)
    /\ UNCHANGED <<productRows, orderRows, now, nonApiVars>>

(***************************************************************************)
(* SpecMembers                                                             *)
(***************************************************************************)
InitMembers ==
    /\ NoCalls /\ NoInventory /\ NoPayments
    /\ NoOrders /\ NoReservations /\ NoTransactions /\ NoOrderNumbers
    /\ NoBusinesses
    /\ members = [k \in (Callers \X Businesses) |-> NoMember]
    /\ productRows = [x \in ProductIds |-> NoRow]
    /\ orderRows = [y \in OrderIds |-> NoRow]
    /\ now = 1
    /\ resp = NoResp

MembersCreate ==
    \E k \in (Callers \X Businesses), r \in RoleInputs, a \in BOOLEAN :
        BusinessMemberViewSet_create(k[1], k[2], r, a)

MembersUpdate ==
    \E k \in (Callers \X Businesses), r \in RoleInputs, a \in BOOLEAN :
        BusinessMemberViewSet_update(k[1], k[2], r, a)

MembersAdminSave ==
    \E k \in (Callers \X Businesses), r \in RoleInputs, a \in BOOLEAN :
        BusinessMemberAdmin_save(k[1], k[2], r, a)

NextMembers ==
    \/ MembersCreate
    \/ MembersUpdate
    \/ MembersAdminSave

SpecMembers == InitMembers /\ [][NextMembers]_vars

(***************************************************************************)
(* Business rows: name and slug (unique=True, blank=True)                  *)
(***************************************************************************)
Names == {"acme", "bolt"}

\* slugs given to Business.save of a new instance; "" is none given
SlugInputs == {"", "acme-1", "bolt-1"}

\* uuid4().hex[:6]
HexInputs == {"a1", "b2"}

\* the slug Business.save leaves on the instance: one is generated from the
\* name only when the instance has no pk and no slug
SlugOnSave(has_pk, slug, name, hex) ==
    IF ~has_pk /\ slug = "" THEN <<name, hex>> ELSE slug

\* the unique index on businesses.slug
SlugTaken(bs, b, slug) ==
    \E x \in Businesses \ {b} : bs[x].exists /\ bs[x].slug = slug

\* the INSERT of a new Business whose id has its uuid4 default
BusinessInsert(op, b, name, slug, hex) ==
    /\ ~businesses[b].exists
    /\ IF SlugTaken(businesses, b, SlugOnSave(TRUE, slug, name, hex))
       THEN /\ resp' = Resp(op, b, "IntegrityError", "slug")
            /\ UNCHANGED businesses
       ELSE /\ businesses' = [businesses EXCEPT ![b] =
                   [exists |-> TRUE, name |-> name,
                    slug |-> SlugOnSave(TRUE, slug, name, hex)]]
            /\ resp' = Resp(op, b, "ok", None)
    /\ UNCHANGED <<now, nonBizVars>>

\* POST /businesses/ : slug is read-only in BusinessSerializer, so the new
\* instance has slug ""
BusinessViewSet_create(b, name, hex) ==
    BusinessInsert("business_create", b, name, "", hex)

\* Business.save of a new instance made in code, with the slug it is given
BusinessSaveNew(b, name, slug, hex) ==
    BusinessInsert("business_save_new", b, name, slug, hex)

\* PUT/PATCH /businesses/{b}/ : name is written, the slug of the input is
\* dropped (read_only_fields), Business.save runs on the loaded instance
BusinessViewSet_update_slug_writable(b, name, slug, hex) ==
    /\ businesses[b].exists
    /\ IF SlugTaken(businesses, b, slug)
       THEN /\ resp' = Resp("business_update", b, "IntegrityError", "slug")
            /\ UNCHANGED businesses
       ELSE /\ businesses' = [businesses EXCEPT ![b].name = name, ![b].slug = slug]
            /\ resp' = Resp("business_update", b, "ok", slug)
    /\ UNCHANGED <<now, nonBizVars>>

BusinessViewSet_update(b, name, slug, hex) ==
    /\ businesses[b].exists
    /\ businesses' = [businesses EXCEPT
           ![b].name = name,
           ![b].slug = SlugOnSave(TRUE, businesses[b].slug, name, hex)]
    /\ resp' = Resp("business_update", b, "ok", slug)
    /\ UNCHANGED <<now, nonBizVars>>

\* a later save of a loaded Business whose name was changed in code
BusinessSave(b, name, hex) ==
    /\ businesses[b].exists
    /\ businesses' = [businesses EXCEPT
           ![b].name = name,
           ![b].slug = SlugOnSave(TRUE, businesses[b].slug, name, hex)]
    /\ resp' = Resp("business_save", b, "ok", None)
    /\ UNCHANGED <<now, nonBizVars>>

(***************************************************************************)
(* SpecBiz                                                                 *)
(***************************************************************************)
InitBiz ==
    /\ NoCalls /\ NoInventory /\ NoPayments
    /\ NoOrders /\ NoReservations /\ NoTransactions /\ NoOrderNumbers
    /\ NoApiRows
    /\ businesses = [b \in Businesses |-> NoRow]
    /\ now = 1
    /\ resp = NoResp

BizCreate ==
    \E b \in Businesses, n \in Names, h \in HexInputs : BusinessViewSet_create(b, n, h)

BizSaveNew ==
    \E b \in Businesses, n \in Names, sl \in SlugInputs, h \in HexInputs :
        BusinessSaveNew(b, n, sl, h)

BizUpdate ==
    \E b \in Businesses, n \in Names, sl \in SlugInputs, h \in HexInputs :
        BusinessViewSet_update(b, n, sl, h)

BizSave ==
    \E b \in Businesses, n \in Names, h \in HexInputs : BusinessSave(b, n, h)

NextBiz ==
    \/ BizCreate
    \/ BizSaveNew
    \/ BizUpdate
    \/ BizSave

SpecBiz == InitBiz /\ [][NextBiz]_vars

(***************************************************************************)
(* Claims checked under SpecRes                                            *)
(***************************************************************************)
ACTIVE_STATUSES == {"pending", "confirmed", "in_progress"}

IsActive(r) ==
    Exists(reservations, r) /\ reservations[r].status \in ACTIVE_STATUSES

Overlap(a, b) ==
    /\ reservations[a].service_provider = reservations[b].service_provider
    /\ reservations[a].start_datetime < reservations[b].end_datetime
    /\ reservations[a].end_datetime > reservations[b].start_datetime

\* C4: in every reachable state no two distinct reservations of the same
\* service provider that are both pending, confirmed or in progress overlap
\* in time (a.start < b.end and a.end > b.start).
C4_NoActiveOverlap ==
    \A a \in ResIds, b \in ResIds :
        (a # b /\ IsActive(a) /\ IsActive(b)) => ~Overlap(a, b)

CreateCalled(r) ==
    /\ resp'.op \in {"reservation_save", "admin_add", "api_create"}
    /\ resp'.target = r
    /\ ~Exists(reservations, r)

\* C15: creating a reservation of a provider is rejected exactly when an
\* active reservation of that provider overlaps it (existing.start < new.end
\* and existing.end > new.start): a creation that succeeds has stored a row
\* that no active reservation of its provider overlaps, and one that does
\* not succeed has failed validation and stored nothing.
C15_CreateRejectedExactlyOnOverlap ==
    [][\A r \in ResIds :
          CreateCalled(r) =>
              IF resp'.result = "ok"
              THEN /\ Exists(reservations', r)
                   /\ Overlapping(reservations, r,
                                  reservations'[r].service_provider,
                                  reservations'[r].start_datetime,
                                  reservations'[r].end_datetime) = {}
              ELSE /\ resp'.result = "ValidationError"
                   /\ resp'.reason \in {"overlap", "end_before_start"}
                   /\ reservations' = reservations]_vars

DepositMissing(r) ==
    /\ Exists(reservations, r)
    /\ reservations[r].requires_deposit
    /\ ~reservations[r].deposit_paid

ConfirmAttempted(r) ==
    resp'.op = "confirm_reservation" /\ resp'.target = r

\* C10: a reservation that requires a deposit which is not paid is never
\* moved to status confirmed by any operation, and confirm_reservation on it
\* fails with ValidationError leaving status, confirmed_at, confirmed_by and
\* the status history unchanged.
C10_UnpaidDepositNeverConfirmed ==
    [][\A r \in ResIds :
          (DepositMissing(r) /\ reservations[r].status # "confirmed") =>
              /\ reservations'[r].status # "confirmed"
              /\ (ConfirmAttempted(r) /\ reservations[r].status = "pending") =>
                     /\ resp'.result = "ValidationError"
                     /\ reservations'[r] = reservations[r]
                     /\ resHistory' = resHistory]_vars

(***************************************************************************)
(* Claims checked under SpecFin                                            *)
(***************************************************************************)
PostCalled(t) == resp'.op = "post" /\ resp'.target = t

\* the transaction's entries of one type, as a bag
RowsOf(t, entry_type) ==
    [e \in {x \in DOMAIN entries : x.transaction = t /\ x.entry_type = entry_type}
        |-> entries[e]]

RECURSIVE BagTotal(_)
BagTotal(b) ==
    IF b = EmptyBag THEN 0
    ELSE LET e == CHOOSE x \in BagToSet(b) : TRUE
         IN  e.amount + BagTotal(b (-) SetToBag({e}))

\* the sum of the amounts of the transaction's entries of one type
Total(t, entry_type) == BagTotal(RowsOf(t, entry_type))

Balanced(t) == Total(t, "debit") = Total(t, "credit")

Unposted(t) == transactions[t].exists /\ ~transactions[t].is_posted

Posted(t) == transactions[t].exists /\ transactions[t].is_posted

\* C5: post of an unposted transaction succeeds if and only if the sum of
\* its debit entries equals the sum of its credit entries (an empty entry
\* set included); on success is_posted is true and posted_at is the time of
\* the call, on failure the transaction is left unposted with posted_at
\* unset; the entries are never touched by post.
C5_PostSucceedsIffBalanced ==
    [][\A t \in Txns :
          (PostCalled(t) /\ Unposted(t)) =>
              /\ (resp'.result = "ok") <=> Balanced(t)
              /\ resp'.result = "ok" =>
                     /\ transactions'[t].is_posted
                     /\ transactions'[t].posted_at = now
              /\ resp'.result # "ok" =>
                     /\ resp'.result = "BadRequest"
                     /\ ~transactions'[t].is_posted
                     /\ transactions'[t].posted_at = None
              /\ entries' = entries]_vars

\* a post succeeded on a transaction whose debits total MaxAmount and whose
\* credits are two rows
C5_Witness ==
    \E t \in Txns :
        /\ resp = Resp("post", t, "ok", None)
        /\ Posted(t)
        /\ Total(t, "debit") = MaxAmount
        /\ BagCardinality(RowsOf(t, "credit")) = 2

\* C6: post of an already posted transaction fails and changes nothing:
\* is_posted stays true and posted_at keeps the time of the first
\* successful post, whether or not the entries balance now.
C6_RepostFailsWithoutEffect ==
    [][\A t \in Txns :
          (PostCalled(t) /\ Posted(t)) =>
              /\ resp'.result = "BadRequest"
              /\ transactions'[t].is_posted
              /\ transactions'[t].posted_at = transactions[t].posted_at
              /\ transactions' = transactions
              /\ entries' = entries]_vars

\* a posted transaction was posted again at a later time, its entries
\* balanced
C6_Witness ==
    \E t \in Txns :
        /\ resp = Resp("post", t, "BadRequest", "already_posted")
        /\ Posted(t)
        /\ transactions[t].posted_at # now
        /\ Balanced(t)
        /\ Total(t, "debit") > 0

(***************************************************************************)
(* Claims checked under SpecNum                                            *)
(***************************************************************************)
SavedOk(r, business) ==
    r.op = "order_save" /\ r.target = business /\ r.result = "ok"

SaveCalled(business) == resp'.op = "order_save" /\ resp'.target = business

\* C9: when an order of a business has just been created and the next
\* operation creates another order of that business on the same day, the
\* second order is created with the sequence number of the first plus 1;
\* and no two rows of the table have the same order_number.
C9_ConsecutiveNumbersDifferByOne ==
    [][/\ \A b \in Businesses :
             (SavedOk(resp, b) /\ SaveCalled(b)) =>
                 /\ resp'.result = "ok"
                 /\ ParseInt(resp'.order_number) = ParseInt(resp.order_number) + 1
       /\ \A i \in 1..Len(orderNumbers'), j \in 1..Len(orderNumbers') :
             (i # j) =>
                 <<orderNumbers'[i].date, orderNumbers'[i].number>> #
                     <<orderNumbers'[j].date, orderNumbers'[j].number>>]_vars

(***************************************************************************)
(* Claims checked under SpecApi                                            *)
(***************************************************************************)
is_superuser(user) == user = "su"

READ_OPS == {"product_list", "product_retrieve", "order_list", "order_retrieve"}

WRITE_OPS ==
    {"product_create", "product_update", "product_destroy",
     "order_create", "order_update", "order_destroy"}

IsOrderOp(op) == op \in {"order_list", "order_retrieve", "order_create",
                         "order_update", "order_destroy"}

\* the business of a row that a response names
BusinessOfRow(x) ==
    IF x \in ProductIds THEN productRows[x].business ELSE orderRows[x].business

RowExists(x) ==
    IF x \in ProductIds THEN productRows[x].exists ELSE orderRows[x].exists

\* C11: what list and retrieve give a caller who is not a superuser are
\* rows of businesses of which the caller is an active member only, and
\* retrieve of a row of another business answers NotFound.
C11_ReadsStayInsideTheTenant ==
    (resp.op \in READ_OPS /\ ~is_superuser(resp.caller)) =>
        /\ \A x \in resp.data :
               BusinessOfRow(x) \in user_businesses(members, resp.caller)
        /\ (/\ resp.op \in {"product_retrieve", "order_retrieve"}
            /\ RowExists(resp.target)
            /\ BusinessOfRow(resp.target) \notin user_businesses(members, resp.caller))
               => resp.result = "NotFound"

\* the roles that may write rows of the entity the operation is about
WriterRoles(op) ==
    IF IsOrderOp(op) THEN {"owner", "admin", "manager", "employee", "cashier"}
    ELSE {"owner", "admin"}

MayWrite(user, business, op) ==
    \/ is_staff(user)
    \/ /\ is_member(members, user, business)
       /\ members[<<user, business>>].role \in WriterRoles(op)

\* the business of the row a write request is aimed at
TargetBusiness(x) ==
    IF x \in ProductIds
    THEN (IF productRows[x].exists THEN productRows[x].business
          ELSE productRows'[x].business)
    ELSE (IF orderRows[x].exists THEN orderRows[x].business
          ELSE orderRows'[x].business)

\* C12: a create, update or delete request changes a row only if the caller
\* is staff or an active member of the row's business with a role allowed
\* to write (owner, admin; for orders also manager, employee, cashier).
C12_WritesNeedAWriterRole ==
    [][(/\ resp'.op \in WRITE_OPS
        /\ <<productRows', orderRows'>> # <<productRows, orderRows>>)
          => MayWrite(resp'.caller, TargetBusiness(resp'.target), resp'.op)]_vars

DELETE_OPS == {"product_destroy", "order_destroy", "soft_delete"}

RowAfter(x) == IF x \in ProductIds THEN productRows'[x] ELSE orderRows'[x]

\* C18: after a delete operation that succeeded on a row, the row still
\* exists, with is_deleted true and deleted_at set to the time of the call.
C18_DeleteIsSoft ==
    [][(resp'.op \in DELETE_OPS /\ resp'.result = "ok" /\ RowExists(resp'.target))
          => /\ RowAfter(resp'.target).exists
             /\ RowAfter(resp'.target).is_deleted
             /\ RowAfter(resp'.target).deleted_at = now]_vars

(***************************************************************************)
(* Claims checked under SpecOrderApi                                       *)
(***************************************************************************)
SERVER_FIELDS == {"order_number", "total", "confirmed_at"}

\* C19: no update changes order_number, total or confirmed_at of a stored
\* order: a PUT/PATCH that carries one of them is rejected, so none of them
\* ever holds a value the client sent.
C19_ServerFieldsKeepTheirValue ==
    [][\A y \in OrderIds :
          (orderRows[y].exists /\ resp'.op = "order_update" /\ resp'.target = y) =>
              /\ orderRows'[y].exists
              /\ \A f \in SERVER_FIELDS : orderRows'[y][f] = orderRows[y][f]]_vars

\* C20: every stored order has a customer and a warehouse of its own
\* business (or none), and a create or update that would store another one
\* fails with ValidationError and stores nothing.
C20_ForeignKeysOfTheSameBusiness ==
    \A y \in OrderIds :
        orderRows[y].exists =>
            OrderClean(orderRows[y].business, orderRows[y].customer,
                       orderRows[y].warehouse) = None

(***************************************************************************)
(* Claims checked under SpecMembers                                        *)
(***************************************************************************)
ActiveOwners(business) ==
    {k \in (Callers \X Businesses) :
        /\ k[2] = business
        /\ members[k].exists /\ members[k].role = "owner" /\ members[k].is_active}

\* C16: in every reachable state each business has at most one member with
\* role owner and is_active true.
C16_AtMostOneActiveOwner ==
    \A b \in Businesses : Cardinality(ActiveOwners(b)) <= 1

(***************************************************************************)
(* Claims checked under SpecBiz                                            *)
(***************************************************************************)
\* C17: no two businesses have the same slug, and no update (PUT/PATCH or
\* a later model save) changes the slug a business was created with.
C17_SlugUniqueAndImmutable ==
    [][/\ \A a \in Businesses, b \in Businesses :
             (a # b /\ businesses'[a].exists /\ businesses'[b].exists) =>
                 businesses'[a].slug # businesses'[b].slug
       /\ \A b \in Businesses :
             (businesses[b].exists /\ businesses'[b].exists) =>
                 businesses'[b].slug = businesses[b].slug]_vars

\* two businesses exist and the last request, a PATCH that carried the
\* other business's slug, changed the name and not the slug
C17_Witness ==
    /\ resp.op = "business_update" /\ resp.result = "ok"
    /\ \A b \in Businesses : businesses[b].exists
    /\ \E b \in Businesses \ {resp.target} : businesses[b].slug = resp.reason
    /\ businesses[resp.target].slug # resp.reason

(***************************************************************************)
(* Further claims about Business.save (SpecBiz)                            *)
(***************************************************************************)
\* C21: a business created without a slug is stored with a non-empty slug
\* made from its name, so creating a business without a slug never fails,
\* whatever businesses exist already.
C21_SlugGeneratedOnFirstSave ==
    /\ resp.op = "business_create" => resp.result = "ok"
    /\ \A b \in Businesses : businesses[b].exists => businesses[b].slug # ""

(***************************************************************************)
(* Further claims about Order.mark_as_confirmed (SpecConfirm)              *)
(***************************************************************************)
\* quantity the order's tracked items ask of variant v
AskedOfVariant(o, v) ==
    LET S == {k \in OrderItemSet(o) : IsTracked(items[k]) /\ UsesVariant(items[k])
                                      /\ items[k].variant = v}
        RECURSIVE Sum(_)
        Sum(T) == IF T = {} THEN 0
                  ELSE LET j == CHOOSE j \in T : TRUE
                       IN  items[j].quantity + Sum(T \ {j})
    IN  Sum(S)

\* C28: confirmations leave the stock of every tracked product and variant
\* at 0 or above, and an order is confirmed only when every one of its items
\* was deducted from its variant.
C28_StockNeverNegative ==
    [][/\ \A p \in Products :
             products'[p].track_inventory => products'[p].stock_quantity >= 0
       /\ \A v \in Variants : variants'[v].stock_quantity >= 0
       /\ \A o \in Orders :
             (ConfirmCalled(o) /\ resp'.result = "ok")
             => \A v \in Variants :
                   variants'[v].stock_quantity
                     = variants[v].stock_quantity - AskedOfVariant(o, v)]_vars

(***************************************************************************)
(* Further claims about transactions and their entries (SpecFin)           *)
(***************************************************************************)
\* C26: in every state, the debit entries and the credit entries of a posted
\* transaction have the same sum.
C26_PostedStaysBalanced == \A t \in Txns : Posted(t) => Balanced(t)

(***************************************************************************)
(* Further claims about order numbers (SpecNum)                            *)
(***************************************************************************)
\* the rows of the table that belong to the business
OwnRows(business) == SelectSeq(orderNumbers, LAMBDA r : r.business = business)

\* C29: Order.save for a business succeeds or fails, and assigns its
\* order_number, as it would if the table held the orders of that business
\* alone.
C29_SaveIndependentOfOtherBusinesses ==
    [][\A b \in Businesses :
          SaveCalled(b) =>
              LET number == NextNumber(OwnRows(b), b, today)
              IN  /\ resp'.order_number = number
                  /\ (resp'.result = "ok") = ~NumberTaken(OwnRows(b), today, number)]_vars

(***************************************************************************)
(* Inventory: one InventoryItem row                                        *)
(***************************************************************************)
MaxInvQty == 4     \* largest InventoryItem.quantity

\* quantities passed to reserve and release_reservation
InvQuantities == 1..(MaxInvQty + 1)

\* InventoryItem.available_quantity
available_quantity(item) ==
    IF item.quantity - item.reserved_quantity > 0
    THEN item.quantity - item.reserved_quantity
    ELSE 0

\* InventoryItem.reserve(quantity); result is the value returned
reserve_unchecked(quantity) ==
    /\ inventory' = [inventory EXCEPT !.reserved_quantity = @ + quantity]
    /\ resp' = Resp("reserve", quantity, "True", None)
    /\ UNCHANGED <<now, nonInvVars>>

reserve(quantity) ==
    /\ IF available_quantity(inventory) >= quantity
       THEN /\ inventory' = [inventory EXCEPT !.reserved_quantity = @ + quantity]
            /\ resp' = Resp("reserve", quantity, "True", None)
       ELSE /\ resp' = Resp("reserve", quantity, "False", None)
            /\ UNCHANGED inventory
    /\ UNCHANGED <<now, nonInvVars>>

\* InventoryItem.release_reservation(quantity)
release_reservation(quantity) ==
    /\ inventory' = [inventory EXCEPT !.reserved_quantity =
                        IF @ - quantity > 0 THEN @ - quantity ELSE 0]
    /\ resp' = Resp("release_reservation", quantity, None, None)
    /\ UNCHANGED <<now, nonInvVars>>

(***************************************************************************)
(* SpecInv: an item with any quantity and any reservation up to it         *)
(***************************************************************************)
InitInv ==
    /\ NoOrders /\ NoReservations /\ NoTransactions /\ NoOrderNumbers
    /\ NoApiRows /\ NoBusinesses /\ NoCalls /\ NoPayments
    /\ inventory \in {[quantity |-> q, reserved_quantity |-> r] :
                         q \in 0..MaxInvQty, r \in 0..MaxInvQty}
    /\ inventory.reserved_quantity <= inventory.quantity
    /\ now = 1
    /\ resp = NoResp

InvReserve == \E n \in InvQuantities : reserve(n)

InvRelease == \E n \in InvQuantities : release_reservation(n)

NextInv ==
    \/ InvReserve
    \/ InvRelease

SpecInv == InitInv /\ [][NextInv]_vars

(***************************************************************************)
(* Claims about InventoryItem (SpecInv)                                    *)
(***************************************************************************)
\* C25: reserved_quantity stays between 0 and the quantity, which no call
\* changes; available_quantity is quantity - reserved_quantity; reserve(n)
\* returns True and adds n when n is at most the available quantity, and
\* otherwise returns False and leaves reserved_quantity as it was.
C25_ReservedStaysWithinQuantity ==
    [][/\ inventory'.quantity = inventory.quantity
       /\ 0 <= inventory'.reserved_quantity
       /\ inventory'.reserved_quantity <= inventory'.quantity
       /\ available_quantity(inventory')
            = inventory'.quantity - inventory'.reserved_quantity
       /\ resp'.op = "reserve" =>
             IF resp'.target <= inventory.quantity - inventory.reserved_quantity
             THEN /\ resp'.result = "True"
                  /\ inventory'.reserved_quantity
                       = inventory.reserved_quantity + resp'.target
             ELSE /\ resp'.result = "False"
                  /\ inventory'.reserved_quantity = inventory.reserved_quantity]_vars

\* a reserve that was refused although some quantity was still available,
\* on an item that holds a reservation
C25_Witness ==
    /\ resp.op = "reserve" /\ resp.result = "False"
    /\ inventory.reserved_quantity > 0
    /\ inventory.reserved_quantity < inventory.quantity

(***************************************************************************)
(* Payments and the invoice they pay.  Amounts are in cents; refund works  *)
(* on float(amount), and the invoice's amount_paid is stored again with two *)
(* decimals, so the integers carry the same values.                        *)
(***************************************************************************)
MaxPayAmount == 2     \* largest Payment.amount and Invoice.total

PaymentIds == {"pay1", "pay2"}
InvoiceIds == {"inv1"}

\* request.data of POST /payments/{p}/refund/: no amount, or the amount
RefundInputs == {<<>>} \cup {<<a>> : a \in 0..(MaxPayAmount + 1)}

\* POST /payments/{p}/mark_captured/
mark_captured(p) ==
    /\ IF payments[p].status \notin {"pending", "authorized"}
       THEN /\ resp' = Resp("mark_captured", p, "BadRequest", "status")
            /\ UNCHANGED <<payments, invoices>>
       ELSE /\ payments' = [payments EXCEPT ![p].status = "captured",
                                            ![p].paid_at = now]
            /\ IF payments[p].invoice # None
               THEN LET i    == payments[p].invoice
                        paid == invoices[i].amount_paid + payments[p].amount
                    IN  invoices' = [invoices EXCEPT
                            ![i].amount_paid = paid,
                            ![i].status = IF paid >= invoices[i].total
                                          THEN "paid" ELSE "partially_paid"]
               ELSE UNCHANGED invoices
            /\ resp' = Resp("mark_captured", p, "ok", None)
    /\ UNCHANGED <<now, nonPayVars>>

\* POST /payments/{p}/refund/ with request.data
refund(p, data) ==
    /\ LET amount == IF data = <<>> THEN payments[p].amount ELSE data[1]
       IN  IF payments[p].status # "captured"
           THEN /\ resp' = Resp("refund", p, "BadRequest", "status")
                /\ UNCHANGED <<payments, invoices>>
           ELSE IF amount <= 0 \/ amount > payments[p].amount
           THEN /\ resp' = Resp("refund", p, "BadRequest", "amount")
                /\ UNCHANGED <<payments, invoices>>
           ELSE /\ payments' = [payments EXCEPT ![p].status = "refunded",
                                                ![p].refunded_amount = amount]
                /\ IF payments[p].invoice # None
                   THEN LET i    == payments[p].invoice
                            paid == IF invoices[i].amount_paid - amount > 0
                                    THEN invoices[i].amount_paid - amount ELSE 0
                        IN  invoices' = [invoices EXCEPT
                                ![i].amount_paid = paid,
                                ![i].status = IF paid <= 0 THEN "sent"
                                              ELSE "partially_paid"]
                   ELSE UNCHANGED invoices
                /\ resp' = Resp("refund", p, "ok", data)
    /\ UNCHANGED <<now, nonPayVars>>

(***************************************************************************)
(* SpecPay: two payments, of which the first pays the invoice and the      *)
(* second pays it too or pays nothing.                                     *)
(***************************************************************************)
InitPay ==
    /\ NoOrders /\ NoReservations /\ NoTransactions /\ NoOrderNumbers
    /\ NoApiRows /\ NoBusinesses /\ NoCalls /\ NoInventory
    /\ payments \in [PaymentIds -> [status : {"pending", "authorized"},
                                    amount : 1..MaxPayAmount,
                                    refunded_amount : {0},
                                    paid_at : {None},
                                    invoice : InvoiceIds \cup {None}]]
    /\ payments["pay1"].invoice # None
    /\ invoices \in [InvoiceIds -> [total : 1..MaxPayAmount,
                                    amount_paid : {0},
                                    status : {"sent"}]]
    /\ now = 1
    /\ resp = NoResp

PayCapture == \E p \in PaymentIds : mark_captured(p)

PayRefund == \E p \in PaymentIds, data \in RefundInputs : refund(p, data)

NextPay ==
    \/ PayCapture
    \/ PayRefund

SpecPay == InitPay /\ [][NextPay]_vars

(***************************************************************************)
(* Claims about payments (SpecPay)                                         *)
(***************************************************************************)
PayCalled(op, p) == resp'.op = op /\ resp'.target = p

\* C30: mark_captured succeeds only from pending or authorized and adds the
\* payment's amount to the invoice's amount_paid; refund succeeds only from
\* captured and takes its amount off, never below 0; after a call that
\* succeeded the invoice is paid if and only if amount_paid >= total, sent
\* if a refund brought amount_paid to 0, and partially_paid otherwise; a
\* call that is rejected changes neither the payment nor the invoice.
C30_PaymentsKeepTheInvoiceRight ==
    [][\A p \in PaymentIds :
          /\ PayCalled("mark_captured", p) =>
                /\ (resp'.result = "ok")
                      = (payments[p].status \in {"pending", "authorized"})
                /\ resp'.result = "ok" => payments'[p].status = "captured"
          /\ PayCalled("refund", p) =>
                /\ resp'.result = "ok" => /\ payments[p].status = "captured"
                                          /\ payments'[p].status = "refunded"
          /\ (resp'.op \in {"mark_captured", "refund"} /\ resp'.target = p
                  /\ resp'.result # "ok")
                => UNCHANGED <<payments, invoices>>
          /\ (resp'.op \in {"mark_captured", "refund"} /\ resp'.target = p
                  /\ resp'.result = "ok" /\ payments[p].invoice # None)
                => LET i == payments[p].invoice
                   IN  /\ invoices'[i].amount_paid >= 0
                       /\ resp'.op = "mark_captured" =>
                             invoices'[i].amount_paid
                               = invoices[i].amount_paid + payments[p].amount
                       /\ invoices'[i].status =
                             IF invoices'[i].amount_paid >= invoices'[i].total
                             THEN "paid"
                             ELSE IF resp'.op = "refund"
                                       /\ invoices'[i].amount_paid = 0
                                  THEN "sent"
                                  ELSE "partially_paid"]_vars

(***************************************************************************)
(* Order items of two orders: deleted, and moved from one order to the     *)
(* other                                                                   *)
(***************************************************************************)
ItemOrders == {"o1", "o2"}

\* DELETE /order-items/{k}/ : ModelViewSet.destroy deletes the row; OrderItem
\* has no delete method and no signal is connected
OrderItemDelete(k) ==
    /\ k \in 1..Len(items)
    /\ items' = SubSeq(items, 1, k - 1) \o SubSeq(items, k + 1, Len(items))
    /\ resp' = Resp("item_delete", k, "ok", items[k].order)
    /\ UNCHANGED <<orders, products, variants, statusHistory, now, nonOrderVars>>

\* PATCH /order-items/{k}/ {"order": o} : OrderItemSerializer writes order,
\* OrderItem.save recomputes the amounts and the totals of self.order
OrderItemMove(k, o) ==
    /\ k \in 1..Len(items)
    /\ LET old == items[k]
           err == OrderItemClean(products, old.product, old.variant)
           new == [order |-> o, product |-> old.product, variant |-> old.variant,
                   quantity |-> old.quantity, unit_price |-> old.unit_price,
                   discount_percentage |-> old.discount_percentage,
                   tax_rate |-> old.tax_rate]
                  @@ ItemAmounts(old.quantity, old.unit_price,
                                 old.discount_percentage, old.tax_rate,
                                 old.discount_amount, old.tax_amount)
           its == [items EXCEPT ![k] = new]
       IN  IF err # None
           THEN /\ resp' = Resp("item_move", k, "ValidationError", err)
                /\ UNCHANGED <<items, orders>>
           ELSE /\ items' = its
                /\ orders' = [orders EXCEPT ![o] = calculate_totals(its, @, o)]
                /\ resp' = Resp("item_move", k, "ok", old.order)
    /\ UNCHANGED <<products, variants, statusHistory, now, nonOrderVars>>

(***************************************************************************)
(* SpecItems                                                               *)
(***************************************************************************)
InitItems ==
    /\ NoReservations /\ NoTransactions /\ NoOrderNumbers
    /\ NoApiRows /\ NoBusinesses /\ NoCalls /\ NoInventory /\ NoPayments
    /\ products = [p \in Products |->
                      [track_inventory |-> TRUE,
                       has_variants |-> (\E v \in Variants : VariantProduct[v] = p),
                       stock_quantity |-> MaxStock]]
    /\ variants = [v \in Variants |-> [stock_quantity |-> MaxStock]]
    /\ orders = [o \in ItemOrders |-> NewOrder(0)]
    /\ items = <<>>
    /\ statusHistory = <<>>
    /\ now = 1
    /\ resp = NoResp

ItemsAdd ==
    \E o \in ItemOrders, p \in Products, q \in Quantities, price \in Prices,
       pct \in Percentages :
        OrderItemCreate(o, p, None, q, price, pct, 0)

ItemsUpdate ==
    \E k \in 1..MaxItems, q \in Quantities, price \in Prices, rate \in TaxRates :
        OrderItemUpdate(k, q, price, 0, rate)

ItemsDelete == \E k \in 1..MaxItems : OrderItemDelete(k)

ItemsMove == \E k \in 1..MaxItems, o \in ItemOrders : OrderItemMove(k, o)

NextItems ==
    \/ ItemsAdd
    \/ ItemsUpdate
    \/ ItemsDelete
    \/ ItemsMove

SpecItems == InitItems /\ [][NextItems]_vars

(***************************************************************************)
(* Claims about the totals of an order and its items (SpecItems)           *)
(***************************************************************************)
\* the sum of a column over the items the order holds
HeldSum(o, f) == SumField(items, ItemsOf(items, o), f, 1)

\* C27: the subtotal, discount_amount and tax_amount of every order are the
\* sums over the items it holds, and its total is subtotal - discount_amount
\* + tax_amount + shipping_cost.
C27_TotalsFollowTheItemsHeld ==
    \A o \in ItemOrders :
       /\ orders[o].subtotal = HeldSum(o, "subtotal")
       /\ orders[o].discount_amount = HeldSum(o, "discount_amount")
       /\ orders[o].tax_amount = HeldSum(o, "tax_amount")
       /\ orders[o].total = HeldSum(o, "subtotal") - HeldSum(o, "discount_amount")
                              + HeldSum(o, "tax_amount") + orders[o].shipping_cost

(***************************************************************************)
(* Interleaved calls.  Each worker process serves one call at a time;      *)
(* calls[w] holds how far the call of worker w has come and what it has    *)
(* read.  A statement of a call is one step, and the steps of two workers  *)
(* interleave.                                                             *)
(***************************************************************************)
Workers == {"w1", "w2"}

Idle == [pc |-> "idle"]

(***************************************************************************)
(* Order.mark_as_confirmed as its steps.  The body is one transaction      *)
(* (transaction.atomic, READ COMMITTED): its reads see what was committed  *)
(* when they run, its writes are seen by others when it commits.  No       *)
(* statement takes a row lock before reading (no select_for_update).       *)
(***************************************************************************)
\* the status test and the first loop
mark_as_confirmed_checks(w, o) ==
    /\ calls[w].pc = "idle"
    /\ LET err == CheckStock(items, products, variants, o)
       IN  IF orders[o].status # "pending"
           THEN /\ resp' = Resp("mark_as_confirmed", o, "ValidationError",
                                "not_pending")
                /\ calls' = [calls EXCEPT ![w] = [pc |-> "failed", order |-> o]]
           ELSE IF err # None
           THEN /\ resp' = Resp("mark_as_confirmed", o, "ValidationError", err)
                /\ calls' = [calls EXCEPT ![w] = [pc |-> "failed", order |-> o]]
           ELSE /\ resp' = Resp("mark_as_confirmed_checks", o, "passed", None)
                /\ calls' = [calls EXCEPT ![w] =
                       [pc |-> "checked", order |-> o,
                        seen |-> <<products, variants>>]]
    /\ UNCHANGED <<orderVars, now, nonOrderCallVars>>

\* the second loop loads item.product / item.variant again
mark_as_confirmed_loads(w) ==
    /\ calls[w].pc = "checked"
    /\ calls' = [calls EXCEPT ![w] =
           [pc |-> "loaded", order |-> calls[w].order, seen |-> calls[w].seen,
            loaded |-> <<products, variants>>]]
    /\ resp' = Resp("mark_as_confirmed_loads", calls[w].order, "loaded", None)
    /\ UNCHANGED <<orderVars, now, nonOrderCallVars>>

\* the rows of rows that the deduction changed are written, the others kept
WriteStock(rows, loaded, deducted) ==
    [x \in DOMAIN rows |->
        IF deducted[x].stock_quantity # loaded[x].stock_quantity
        THEN [rows[x] EXCEPT !.stock_quantity = deducted[x].stock_quantity]
        ELSE rows[x]]

\* the deductions, the status, the history row, and the commit
mark_as_confirmed_commits_rechecking(w, user) ==
    /\ calls[w].pc = "loaded"
    /\ LET o   == calls[w].order
           ded == DeductAll(items, calls[w].loaded[1], calls[w].loaded[2], o)
       IN  IF orders[o].status # "pending"
           THEN /\ resp' = Resp("mark_as_confirmed", o, "ValidationError",
                                "not_pending")
                /\ calls' = [calls EXCEPT ![w] = [pc |-> "failed", order |-> o]]
                /\ UNCHANGED <<products, variants, orders, statusHistory>>
           ELSE /\ products' = WriteStock(products, calls[w].loaded[1], ded[1])
                /\ variants' = WriteStock(variants, calls[w].loaded[2], ded[2])
                /\ orders' = [orders EXCEPT ![o].status = "confirmed",
                                            ![o].confirmed_at = now]
                /\ statusHistory' = Append(statusHistory,
                       [order |-> o, previous_status |-> "pending",
                        new_status |-> "confirmed", changed_by |-> user])
                /\ calls' = [calls EXCEPT ![w].pc = "done"]
                /\ resp' = Resp("mark_as_confirmed", o, "ok", None)
    /\ UNCHANGED <<items, now, nonOrderCallVars>>

mark_as_confirmed_commits(w, user) ==
    /\ calls[w].pc = "loaded"
    /\ LET o   == calls[w].order
           ded == DeductAll(items, calls[w].loaded[1], calls[w].loaded[2], o)
       IN  /\ products' = WriteStock(products, calls[w].loaded[1], ded[1])
           /\ variants' = WriteStock(variants, calls[w].loaded[2], ded[2])
           /\ orders' = [orders EXCEPT ![o].status = "confirmed",
                                       ![o].confirmed_at = now]
           /\ statusHistory' = Append(statusHistory,
                  [order |-> o, previous_status |-> "pending",
                   new_status |-> "confirmed", changed_by |-> user])
           /\ calls' = [calls EXCEPT ![w].pc = "done"]
           /\ resp' = Resp("mark_as_confirmed", o, "ok", None)
    /\ UNCHANGED <<items, now, nonOrderCallVars>>

(***************************************************************************)
(* SpecConfirmRace: a pending order with one item; each worker calls       *)
(* mark_as_confirmed on it once.                                           *)
(***************************************************************************)
InitConfirmRace ==
    /\ NoReservations /\ NoTransactions /\ NoOrderNumbers
    /\ NoApiRows /\ NoBusinesses /\ NoInventory /\ NoPayments
    /\ \E s \in 0..MaxStock :
          /\ products = [p \in Products |->
                 [track_inventory |-> TRUE,
                  has_variants |-> (\E v \in Variants : VariantProduct[v] = p),
                  stock_quantity |-> s]]
          /\ variants = [v \in Variants |-> [stock_quantity |-> s]]
    /\ \E p \in Products, q \in 1..MaxQty :
          LET v == IF products[p].has_variants
                   THEN CHOOSE x \in Variants : VariantProduct[x] = p
                   ELSE None
          IN  items = <<NewItem("o1", p, v, q, 100, 0, 0)>>
    /\ orders = [o \in Orders |-> calculate_totals(items, NewOrder(0), o)]
    /\ statusHistory = <<>>
    /\ calls = [w \in Workers |-> Idle]
    /\ now = 1
    /\ resp = NoResp

RaceConfirmChecks == \E w \in Workers, o \in Orders : mark_as_confirmed_checks(w, o)

RaceConfirmLoads == \E w \in Workers : mark_as_confirmed_loads(w)

RaceConfirmCommits ==
    \E w \in Workers, u \in Users : mark_as_confirmed_commits(w, u)

NextConfirmRace ==
    \/ RaceConfirmChecks
    \/ RaceConfirmLoads
    \/ RaceConfirmCommits

SpecConfirmRace == InitConfirmRace /\ [][NextConfirmRace]_vars

(***************************************************************************)
(* Claims about interleaved confirmations (SpecConfirmRace)                *)
(***************************************************************************)
InFlight(call) == call.pc \in {"checked", "loaded"}

\* the stock the order's item draws on, in a pair <<products, variants>>
ItemStock(pv) == SourceStock(pv[1], pv[2], items[1])

\* C22: while a call that passed its checks has not committed, a second
\* call on the same order passes the pending check and the stock check too;
\* and a call that passed its checks is not stopped later: it commits,
\* takes the item's quantity off the product stock it loaded (off the
\* variant stock it loaded when that suffices), sets the order to confirmed
\* and adds a history row.
C22_BothCallsPassAndCommit ==
    [][\A w \in Workers :
          /\ (/\ calls[w].pc = "idle" /\ calls'[w].pc # "idle"
              /\ \E v \in Workers \ {w} :
                    InFlight(calls[v]) /\ calls[v].order = calls'[w].order)
             => calls'[w].pc = "checked"
          /\ (calls[w].pc = "loaded" /\ calls'[w].pc # "loaded")
             => /\ calls'[w].pc = "done"
                /\ orders'[calls[w].order].status = "confirmed"
                /\ Len(statusHistory') = Len(statusHistory) + 1
                /\ ItemStock(<<products', variants'>>)
                     = IF UsesProduct(items[1])
                          \/ ItemStock(calls[w].loaded) >= items[1].quantity
                       THEN ItemStock(calls[w].loaded) - items[1].quantity
                       ELSE ItemStock(calls[w].loaded)]_vars

\* both calls passed their checks on the same stock, both committed, and the
\* product's stock went down by the item's quantity twice
C22_Witness ==
    /\ \A w \in Workers : calls[w].pc = "done" /\ calls[w].order = "o1"
    /\ calls["w1"].seen = calls["w2"].seen
    /\ UsesProduct(items[1])
    /\ products[items[1].product].stock_quantity
         = calls["w1"].seen[1][items[1].product].stock_quantity
             - 2 * items[1].quantity
    /\ Len(statusHistory) = 2

(***************************************************************************)
(* Order.save of a new order as its two statements: the SELECT of the last *)
(* order_number of the business, and the INSERT.                           *)
(***************************************************************************)
Order_save_reads(w, business) ==
    /\ calls[w].pc # "read"
    /\ Len(orderNumbers) < MaxOrderRows
    /\ calls' = [calls EXCEPT ![w] =
           [pc |-> "read", business |-> business, date |-> today,
            number |-> NextNumber(orderNumbers, business, today),
            rows_seen |-> Len(orderNumbers)]]
    /\ resp' = RespNum(business, "read", NextNumber(orderNumbers, business, today))
    /\ UNCHANGED <<numVars, now, nonNumCallVars>>

Order_save_inserts_no_unique_index(w) ==
    /\ calls[w].pc = "read"
    /\ orderNumbers' = Append(orderNumbers,
           OrderRow(calls[w].business, calls[w].date, calls[w].number))
    /\ calls' = [calls EXCEPT ![w].pc = "saved"]
    /\ resp' = RespNum(calls[w].business, "ok", calls[w].number)
    /\ UNCHANGED <<today, now, nonNumCallVars>>

Order_save_inserts(w) ==
    /\ calls[w].pc = "read"
    /\ IF NumberTaken(orderNumbers, calls[w].date, calls[w].number)
       THEN /\ resp' = RespNum(calls[w].business, "IntegrityError", calls[w].number)
            /\ calls' = [calls EXCEPT ![w].pc = "failed"]
            /\ UNCHANGED orderNumbers
       ELSE /\ orderNumbers' = Append(orderNumbers,
                   OrderRow(calls[w].business, calls[w].date, calls[w].number))
            /\ calls' = [calls EXCEPT ![w].pc = "saved"]
            /\ resp' = RespNum(calls[w].business, "ok", calls[w].number)
    /\ UNCHANGED <<today, now, nonNumCallVars>>

(***************************************************************************)
(* SpecNumRace: the workers save new orders of the day                     *)
(***************************************************************************)
InitNumRace ==
    /\ NoOrders /\ NoReservations /\ NoTransactions
    /\ NoApiRows /\ NoBusinesses /\ NoInventory /\ NoPayments
    /\ today = 1
    /\ orderNumbers = <<>>
    /\ calls = [w \in Workers |-> Idle]
    /\ now = 1
    /\ resp = NoResp

RaceSaveReads == \E w \in Workers, b \in Businesses : Order_save_reads(w, b)

RaceSaveInserts == \E w \in Workers : Order_save_inserts(w)

NextNumRace ==
    \/ RaceSaveReads
    \/ RaceSaveInserts

SpecNumRace == InitNumRace /\ [][NextNumRace]_vars

(***************************************************************************)
(* Claims about interleaved Order.save calls (SpecNumRace)                 *)
(***************************************************************************)
\* C23: no two rows of the orders table have the same order_number, however
\* the saves interleave: the INSERT of a number that another row holds
\* fails with IntegrityError and adds no row.
C23_ConcurrentSavesKeepNumbersUnique ==
    [][/\ \A i \in 1..Len(orderNumbers'), j \in 1..Len(orderNumbers') :
             (i # j) =>
                 <<orderNumbers'[i].date, orderNumbers'[i].number>> #
                     <<orderNumbers'[j].date, orderNumbers'[j].number>>
       /\ \A w \in Workers :
             (/\ calls[w].pc = "read" /\ calls'[w].pc # "read"
              /\ NumberTaken(orderNumbers, calls[w].date, calls[w].number))
             => /\ resp'.result = "IntegrityError"
                /\ UNCHANGED orderNumbers]_vars

\* two saves of one business read the same table, computed the same number,
\* and one was stored while the other failed on the unique index
C23_Witness ==
    /\ calls["w1"].pc = "saved" /\ calls["w2"].pc = "failed"
    /\ calls["w1"].business = calls["w2"].business
    /\ calls["w1"].rows_seen = calls["w2"].rows_seen
    /\ calls["w1"].number = calls["w2"].number
    /\ resp.result = "IntegrityError"

(***************************************************************************)
(* POST /order-items/ as its statements.  Neither OrderItem.save nor the   *)
(* view opens a transaction and ATOMIC_REQUESTS is not set, so each        *)
(* statement commits by itself: the INSERT of the item, the UPDATE of the  *)
(* order by calculate_totals in save, and the one by calculate_totals in   *)
(* perform_create.                                                         *)
(***************************************************************************)
OrderItem_save_inserts(w, o, product, quantity, unit_price, discount_percentage) ==
    /\ calls[w].pc = "idle"
    /\ Len(items) < MaxItems
    /\ LET err == OrderItemClean(products, product, None)
       IN  IF err # None
           THEN /\ resp' = Resp("item_save", Len(items) + 1, "ValidationError", err)
                /\ UNCHANGED <<items, calls>>
           ELSE /\ items' = Append(items, NewItem(o, product, None, quantity,
                                   unit_price, discount_percentage, 0))
                /\ calls' = [calls EXCEPT ![w] = [pc |-> "inserted", order |-> o]]
                /\ resp' = Resp("item_save", Len(items) + 1, "inserted", None)
    /\ UNCHANGED <<products, variants, orders, statusHistory, now, nonOrderCallVars>>

\* self.order.calculate_totals() at the end of OrderItem.save
OrderItem_save_totals(w) ==
    /\ calls[w].pc = "inserted"
    /\ orders' = [orders EXCEPT ![calls[w].order] =
                      calculate_totals(items, @, calls[w].order)]
    /\ calls' = [calls EXCEPT ![w].pc = "saved"]
    /\ resp' = Resp("item_save", calls[w].order, "saved", None)
    /\ UNCHANGED <<products, variants, items, statusHistory, now, nonOrderCallVars>>

\* item.order.calculate_totals() in OrderItemViewSet.perform_create
perform_create_totals(w) ==
    /\ calls[w].pc = "saved"
    /\ orders' = [orders EXCEPT ![calls[w].order] =
                      calculate_totals(items, @, calls[w].order)]
    /\ calls' = [calls EXCEPT ![w] = Idle]
    /\ resp' = Resp("item_save", calls[w].order, "ok", None)
    /\ UNCHANGED <<products, variants, items, statusHistory, now, nonOrderCallVars>>

\* GET /orders/{o}/ by another client: the order row and its items
OrderRead(o) ==
    /\ resp' = ApiResp("order_retrieve", "u1", o, "ok",
                       [subtotal |-> orders[o].subtotal,
                        total |-> orders[o].total,
                        items |-> [k \in 1..Len(ItemsOf(items, o)) |->
                                      items[ItemsOf(items, o)[k]].subtotal]])
    /\ UNCHANGED <<orderVars, calls, now, nonOrderCallVars>>

(***************************************************************************)
(* SpecItemRace                                                            *)
(***************************************************************************)
InitItemRace ==
    /\ NoReservations /\ NoTransactions /\ NoOrderNumbers
    /\ NoApiRows /\ NoBusinesses /\ NoInventory /\ NoPayments
    /\ products = [p \in Products |->
                      [track_inventory |-> TRUE,
                       has_variants |-> (\E v \in Variants : VariantProduct[v] = p),
                       stock_quantity |-> MaxStock]]
    /\ variants = [v \in Variants |-> [stock_quantity |-> MaxStock]]
    /\ orders = [o \in Orders |-> NewOrder(0)]
    /\ items = <<>>
    /\ statusHistory = <<>>
    /\ calls = [w \in Workers |-> Idle]
    /\ now = 1
    /\ resp = NoResp

RaceItemInserts ==
    \E w \in Workers, o \in Orders, p \in Products, q \in 1..MaxQty,
       price \in Prices, pct \in Percentages :
        OrderItem_save_inserts(w, o, p, q, price, pct)

RaceItemTotals == \E w \in Workers : OrderItem_save_totals(w)

RaceCreateTotals == \E w \in Workers : perform_create_totals(w)

RaceOrderRead == \E o \in Orders : OrderRead(o)

NextItemRace ==
    \/ RaceItemInserts
    \/ RaceItemTotals
    \/ RaceCreateTotals
    \/ RaceOrderRead

SpecItemRace == InitItemRace /\ [][NextItemRace]_vars

(***************************************************************************)
(* Claims about the item save and the order's totals (SpecItemRace)        *)
(***************************************************************************)
RECURSIVE SeqSum(_)
SeqSum(q) == IF q = <<>> THEN 0 ELSE Head(q) + SeqSum(Tail(q))

\* C24: a request that reads an order while items are being saved sees the
\* order's subtotal equal to the sum over the items it sees: never a saved
\* item together with the totals from before it.
C24_ItemAndTotalsAreOneTransaction ==
    resp.op = "order_retrieve" => resp.data.subtotal = SeqSum(resp.data.items)

====
